---- MODULE Spec2Model ----
(***************************************************************************)
(* Bank statement -> YNAB4 converter (radekstepan/bank-to-ynab4).          *)
(*                                                                         *)
(* The model follows YNABFormatter (utils/ynabFormatter.ts) and the bank   *)
(* configuration table (config/bankConfigs.ts):                            *)
(*   parseFile -> convertToYNABTransactions -> generateYNABCSVString.      *)
(*                                                                         *)
(* Representation.                                                         *)
(*   - A JavaScript string is a sequence of one-character strings, so that *)
(*     trimming, regular expressions, splitting and number parsing are     *)
(*     computed character by character.                                    *)
(*   - A JavaScript number that holds an amount is a record               *)
(*     [k |-> "fin", v |-> cents], [k |-> "nan"], or [k |-> "inf"] with    *)
(*     v the sign; the cells of the model carry at most two fraction       *)
(*     digits, so hundredths are exact.                                    *)
(*   - A Date object is NaN (invalid) or a UTC day number, days since      *)
(*     1970-01-01: every Date the code builds is a midnight, UTC or local, *)
(*     and only its UTC calendar components are read.                      *)
(***************************************************************************)
EXTENDS Integers, Sequences, FiniteSets, TLC

VARIABLES
    pc,                   \* where the conversion run stands
    host,                 \* the host: [tz: hours east of UTC, lenient: Date.parse accepts legacy text]
    file,                 \* parseFile argument: [name, fails, data, sheet]
    bankType,             \* parseFile argument
    uiDateFormatHint,     \* parseFile argument (NoToken when not passed)
    importStartDate,      \* parseFile argument (Undefined when not passed)
    rawData,              \* parseFile local: the rows the reader resolved with
    mapped,               \* parseFile local: result of .map(), NullTx for dropped rows
    transactions,         \* parseFile local: mapped.filter(Boolean)
    parsedTransactions,   \* what parseFile resolved with; input of the exporter
    error,                \* what parseFile rejected with, NoError otherwise
    warnings,             \* console.warn calls of the run
    options,              \* convertToYNABTransactions argument
    ynabTransactions,     \* convertToYNABTransactions result
    reader,               \* the decoder parseFile has called: parseCSV, parseXLSX or none
    statusMessage,        \* the caller's status message: [type, text]
    ynabCsvString,        \* the document generateYNABCSVString returned
    skipRowsArg,          \* the skipRows argument of parseXLSX: config.skipRows
    rowConfig,            \* the configuration the amount of a row is derived with
    rowAmount,            \* the amount derived for the row
    configTable,          \* the configuration table the invocations look institutions up in
    calls,                \* overlapping invocations of parseFile: arguments, position, outcome
    frames,               \* the parameters and locals an invocation holds across its await
    ui                    \* the state of the App component and the parses it has started

vars == << pc, host, file, bankType, uiDateFormatHint, importStartDate, rawData,
           mapped, transactions, parsedTransactions, error, warnings, options,
           ynabTransactions, reader, statusMessage,
           ynabCsvString,
           skipRowsArg,
           rowConfig,
           rowAmount,
           configTable,
           calls,
           frames,
           ui >>

-----------------------------------------------------------------------------
(* Bounds of the model.                                                    *)

\* rows in one input file
MaxRows == 2
\* canonical records handed to convertToYNABTransactions in SpecConvert
MaxTx == 2

-----------------------------------------------------------------------------
(* JavaScript strings and values.                                          *)

\* the value `undefined` (no real string has a cell longer than one character)
Undefined == << "<undefined>" >>

\* an option or hint token that was not passed
NoToken == "<undefined>"

\* String(undefined)
UndefinedText == << "u", "n", "d", "e", "f", "i", "n", "e", "d" >>

DigitChars == << "0", "1", "2", "3", "4", "5", "6", "7", "8", "9" >>

Digits == { DigitChars[i] : i \in 1..10 }

DigitVal(c) == (CHOOSE i \in 1..10 : DigitChars[i] = c) - 1

\* WhiteSpace and LineTerminator characters that occur in the cells of the model
WhiteSpace == { " ", "\t", "\n" }

AllDigits(s) == \A i \in 1..Len(s) : s[i] \in Digits

\* String(x): a string is itself, undefined is "undefined"
String(x) == IF x = Undefined THEN UndefinedText ELSE x

RECURSIVE TrimStart(_)
TrimStart(s) ==
    IF s # << >> /\ Head(s) \in WhiteSpace THEN TrimStart(Tail(s)) ELSE s

RECURSIVE TrimEnd(_)
TrimEnd(s) ==
    IF s # << >> /\ s[Len(s)] \in WhiteSpace
    THEN TrimEnd(SubSeq(s, 1, Len(s) - 1))
    ELSE s

\* String.prototype.trim
Trim(s) == TrimEnd(TrimStart(s))

\* s.replace(/[^...]/g, ''): keep the characters of `keep`
RECURSIVE KeepChars(_, _)
KeepChars(s, keep) ==
    IF s = << >> THEN << >>
    ELSE (IF Head(s) \in keep THEN << Head(s) >> ELSE << >>) \o KeepChars(Tail(s), keep)

\* s.replace(/c/g, ''): delete the characters of `drop`
RECURSIVE DropChars(_, _)
DropChars(s, drop) ==
    IF s = << >> THEN << >>
    ELSE (IF Head(s) \in drop THEN << >> ELSE << Head(s) >>) \o DropChars(Tail(s), drop)

\* the longest prefix of s made of digits
RECURSIVE DigitPrefix(_)
DigitPrefix(s) ==
    IF s # << >> /\ Head(s) \in Digits
    THEN << Head(s) >> \o DigitPrefix(Tail(s))
    ELSE << >>

\* the number a digit string denotes (parseInt of a digit string, radix 10)
RECURSIVE DigitsToNat(_)
DigitsToNat(s) ==
    IF s = << >> THEN 0
    ELSE 10 * DigitsToNat(SubSeq(s, 1, Len(s) - 1)) + DigitVal(s[Len(s)])

\* Number.prototype.toString of a natural number
RECURSIVE NatToStr(_)
NatToStr(n) ==
    IF n < 10 THEN << DigitChars[n + 1] >>
    ELSE NatToStr(n \div 10) \o << DigitChars[(n % 10) + 1] >>

\* s.padStart(2, '0')
PadStart2(s) == IF Len(s) < 2 THEN << "0" >> \o s ELSE s

IsPrefix(p, s) == Len(p) <= Len(s) /\ SubSeq(s, 1, Len(p)) = p

-----------------------------------------------------------------------------
(* JavaScript numbers holding amounts.                                     *)

Fin(c) == [k |-> "fin", v |-> c]

NaN == [k |-> "nan", v |-> 0]

Inf(sign) == [k |-> "inf", v |-> sign]

IsNaN(x) == x.k = "nan"

IsFinite(x) == x.k = "fin"

\* x < 0 and x > 0 (every comparison with NaN is false)
Negative(x) == x.k # "nan" /\ x.v < 0

Positive(x) == x.k # "nan" /\ x.v > 0

\* x * -1, -x
Negate(x) == IF x.k = "nan" THEN x ELSE [x EXCEPT !.v = 0 - x.v]

\* Math.abs
Abs(x) == IF Negative(x) THEN Negate(x) ELSE x

\* a - b
Minus(a, b) ==
    CASE IsNaN(a) \/ IsNaN(b) -> NaN
      [] a.k = "inf" /\ b.k = "inf" -> IF a.v = b.v THEN NaN ELSE a
      [] a.k = "inf" -> a
      [] b.k = "inf" -> Negate(b)
      [] OTHER -> Fin(a.v - b.v)

\* x || 0: NaN and 0 are falsy
OrZero(x) == IF IsNaN(x) THEN Fin(0) ELSE x

InfinityText == << "I", "n", "f", "i", "n", "i", "t", "y" >>

NaNText == << "N", "a", "N" >>

\* the hundredths that the first two fraction digits of f denote
FractionCents(f) ==
    (IF Len(f) >= 1 THEN 10 * DigitVal(f[1]) ELSE 0)
    + (IF Len(f) >= 2 THEN DigitVal(f[2]) ELSE 0)

\* parseFloat of a string that starts at its first non-blank, unsigned character:
\* the longest prefix that is "Infinity" or digits[.digits] or .digits
ParseUnsigned(s) ==
    LET ip == DigitPrefix(s)
        r1 == SubSeq(s, Len(ip) + 1, Len(s))
        fp == IF r1 # << >> /\ Head(r1) = "." THEN DigitPrefix(Tail(r1)) ELSE << >>
    IN  IF IsPrefix(InfinityText, s) THEN Inf(1)
        ELSE IF ip = << >> /\ fp = << >> THEN NaN
        ELSE Fin(100 * DigitsToNat(ip) + FractionCents(fp))

\* parseFloat(s): leading white space is skipped, one sign is read, text after
\* the number is ignored, and text that starts no number is NaN
ParseFloat(s) ==
    LET t == TrimStart(s)
    IN  IF t = << >> THEN NaN
        ELSE IF Head(t) = "-" THEN Negate(ParseUnsigned(Tail(t)))
        ELSE IF Head(t) = "+" THEN ParseUnsigned(Tail(t))
        ELSE ParseUnsigned(t)

\* x.toFixed(2)
ToFixed2(x) ==
    CASE x.k = "nan" -> NaNText
      [] x.k = "inf" -> (IF x.v < 0 THEN << "-" >> ELSE << >>) \o InfinityText
      [] OTHER ->
            LET a == IF x.v < 0 THEN 0 - x.v ELSE x.v
            IN  (IF x.v < 0 THEN << "-" >> ELSE << >>)
                \o NatToStr(a \div 100) \o << "." >> \o PadStart2(NatToStr(a % 100))

-----------------------------------------------------------------------------
(* Calendar arithmetic of the Date object (proleptic Gregorian, UTC).      *)

\* day number (days since 1970-01-01) of year y, month m (1..12), day d; d may
\* lie outside the month, as in Date.UTC, and then counts on from its first day
DaysFromCivil(y, m, d) ==
    LET yy == IF m <= 2 THEN y - 1 ELSE y
        era == yy \div 400
        yoe == yy - era * 400
        mp == (m + 9) % 12
        doy == (153 * mp + 2) \div 5 + d - 1
        doe == yoe * 365 + yoe \div 4 - yoe \div 100 + doy
    IN  era * 146097 + doe - 719468

\* getUTCFullYear, getUTCMonth() + 1 and getUTCDate of day number z
CivilFromDays(z) ==
    LET zz == z + 719468
        era == zz \div 146097
        doe == zz - era * 146097
        yoe == (doe - doe \div 1460 + doe \div 36524 - doe \div 146096) \div 365
        doy == doe - (365 * yoe + yoe \div 4 - yoe \div 100)
        mp == (5 * doy + 2) \div 153
        d == doy - (153 * mp + 2) \div 5 + 1
        m == IF mp < 10 THEN mp + 3 ELSE mp - 9
    IN  [year |-> IF m <= 2 THEN yoe + era * 400 + 1 ELSE yoe + era * 400, month |-> m, day |-> d]

DaysInMonth(y, m) == DaysFromCivil(IF m = 12 THEN y + 1 ELSE y, IF m = 12 THEN 1 ELSE m + 1, 1) - DaysFromCivil(y, m, 1)

\* a Date object: invalid (its time value is NaN) or a UTC day
InvalidDate == [ok |-> FALSE, day |-> 0]

DateOf(z) == [ok |-> TRUE, day |-> z]

\* new Date(Date.UTC(year, monthIndex, day)): years 0..99 mean 1900..1999, and
\* a month index or a day outside its range carries over
DateUTC(year, monthIndex, day) ==
    LET y == IF year >= 0 /\ year <= 99 THEN 1900 + year ELSE year
    IN  DateOf(DaysFromCivil(y + monthIndex \div 12, (monthIndex % 12) + 1, day))

\* the UTC day on which local midnight of local day z falls
LocalMidnight(z, h) == DateOf(IF h.tz > 0 THEN z - 1 ELSE z)

\* new Date(Date.UTC(1899, 11, 30)).getTime() + n * 24 * 60 * 60 * 1000
SerialDate(n) == DateOf(DaysFromCivil(1899, 12, 30) + n)

\* s.split(/[\/\-.]/) and other single-character separators
RECURSIVE Split(_, _)
Split(s, seps) ==
    IF \E i \in 1..Len(s) : s[i] \in seps
    THEN LET i == CHOOSE j \in 1..Len(s) : s[j] \in seps /\ \A k \in 1..(j - 1) : s[k] \notin seps
         IN  << SubSeq(s, 1, i - 1) >> \o Split(SubSeq(s, i + 1, Len(s)), seps)
    ELSE << s >>

\* /^\d{4}-\d{2}-\d{2}$/.test(s)
IsISODate(s) ==
    /\ Len(s) = 10
    /\ \A i \in {1, 2, 3, 4, 6, 7, 9, 10} : s[i] \in Digits
    /\ s[5] = "-"
    /\ s[8] = "-"

DateSeparators == { "/", "-", "." }

\* /^\d{1,2}[\/\-.]\d{1,2}[\/\-.]\d{2,4}$/.test(s)
MatchesDayMonthYear(s) ==
    LET p == Split(s, DateSeparators)
    IN  /\ Len(p) = 3
        /\ \A i \in 1..3 : AllDigits(p[i])
        /\ Len(p[1]) \in 1..2
        /\ Len(p[2]) \in 1..2
        /\ Len(p[3]) \in 2..4

\* /^\d{4}[\/\-.]\d{1,2}[\/\-.]\d{1,2}$/.test(s)
MatchesYearMonthDay(s) ==
    LET p == Split(s, DateSeparators)
    IN  /\ Len(p) = 3
        /\ \A i \in 1..3 : AllDigits(p[i])
        /\ Len(p[1]) = 4
        /\ Len(p[2]) \in 1..2
        /\ Len(p[3]) \in 1..2

UpperChars == << "A", "B", "C", "D", "E", "F", "G", "H", "I", "J", "K", "L", "M",
                 "N", "O", "P", "Q", "R", "S", "T", "U", "V", "W", "X", "Y", "Z" >>

LowerChars == << "a", "b", "c", "d", "e", "f", "g", "h", "i", "j", "k", "l", "m",
                 "n", "o", "p", "q", "r", "s", "t", "u", "v", "w", "x", "y", "z" >>

\* String.prototype.toLowerCase
ToLowerCase(s) ==
    [ i \in 1..Len(s) |->
        IF \E j \in 1..26 : UpperChars[j] = s[i]
        THEN LowerChars[CHOOSE j \in 1..26 : UpperChars[j] = s[i]]
        ELSE s[i] ]

MonthNames == << << "j", "a", "n" >>, << "f", "e", "b" >>, << "m", "a", "r" >>, << "a", "p", "r" >>,
                 << "m", "a", "y" >>, << "j", "u", "n" >>, << "j", "u", "l" >>, << "a", "u", "g" >>,
                 << "s", "e", "p" >>, << "o", "c", "t" >>, << "n", "o", "v" >>, << "d", "e", "c" >> >>

\* a calendar date read by Date.parse: valid as written, carried over into the
\* next month by a lenient engine when the day exceeds the month (up to 31),
\* and invalid otherwise; `utc` tells UTC midnight from local midnight
ParsedCalendarDate(y, m, d, utc, h) ==
    IF m \in 1..12 /\ d >= 1 /\ (d <= DaysInMonth(y, m) \/ (d <= 31 /\ h.lenient))
    THEN IF utc THEN DateOf(DaysFromCivil(y, m, d)) ELSE LocalMidnight(DaysFromCivil(y, m, d), h)
    ELSE InvalidDate

\* new Date(dateString) for the text forms that occur in the model:
\*   YYYY-MM-DD and YYYY      ISO forms, UTC (ECMAScript date-time string format)
\*   digits, 3 or 5..6 of them  a year at local midnight on a lenient engine
\*                            (V8), invalid on a strict one
\*   M/D/YYYY, DD Mon YYYY    legacy forms, local midnight; M/D/YYY only on a
\*                            lenient engine
\* and invalid for every other text
NewDate_parsed(dateString, slash, words, h) ==
    CASE IsISODate(dateString) ->
            ParsedCalendarDate(DigitsToNat(SubSeq(dateString, 1, 4)),
                               DigitsToNat(SubSeq(dateString, 6, 7)),
                               DigitsToNat(SubSeq(dateString, 9, 10)), TRUE, h)
      [] dateString # << >> /\ AllDigits(dateString) /\ Len(dateString) = 4 ->
            DateOf(DaysFromCivil(DigitsToNat(dateString), 1, 1))
      [] dateString # << >> /\ AllDigits(dateString) /\ Len(dateString) \in { 3, 5, 6 } ->
            IF h.lenient /\ DigitsToNat(dateString) <= 275760
            THEN LocalMidnight(DaysFromCivil(DigitsToNat(dateString), 1, 1), h)
            ELSE InvalidDate
      [] /\ Len(slash) = 3
         /\ \A i \in 1..3 : AllDigits(slash[i])
         /\ Len(slash[1]) \in 1..2 /\ Len(slash[2]) \in 1..2
         /\ (Len(slash[3]) = 4 \/ (Len(slash[3]) = 3 /\ h.lenient)) ->
            ParsedCalendarDate(DigitsToNat(slash[3]), DigitsToNat(slash[1]),
                               DigitsToNat(slash[2]), FALSE, h)
      [] /\ Len(words) = 3
         /\ AllDigits(words[1]) /\ Len(words[1]) \in 1..2
         /\ AllDigits(words[3]) /\ Len(words[3]) = 4
         /\ \E m \in 1..12 : MonthNames[m] = ToLowerCase(words[2]) ->
            ParsedCalendarDate(DigitsToNat(words[3]),
                               CHOOSE m \in 1..12 : MonthNames[m] = ToLowerCase(words[2]),
                               DigitsToNat(words[1]), FALSE, h)
      [] OTHER -> InvalidDate

\* new Date(dateString), from the text split at '/' and at ' '
NewDate(dateString, h) ==
    NewDate_parsed(dateString, Split(dateString, { "/" }), Split(dateString, { " " }), h)

\* parts[2].length === 2 ? '20' + parts[2] : parts[2] (lines 36, 40)
yearPart(p) == IF Len(p) = 2 THEN << "2", "0" >> \o p ELSE p

\* the hinted branches with day and month taken from each other's place
formatDate_hinted_Swapped(parts, inputFormatHint) ==
    CASE inputFormatHint = "DD/MM/YYYY" ->
            DateUTC(DigitsToNat(yearPart(parts[3])), DigitsToNat(parts[1]) - 1, DigitsToNat(parts[2]))
      [] inputFormatHint = "MM/DD/YYYY" ->
            DateUTC(DigitsToNat(yearPart(parts[3])), DigitsToNat(parts[2]) - 1, DigitsToNat(parts[1]))
      [] OTHER ->
            DateUTC(DigitsToNat(parts[1]), DigitsToNat(parts[2]) - 1, DigitsToNat(parts[3]))

\* the Date object of a branch whose hint and pattern matched (lines 35-44),
\* from parts = dateString.split(/[\/\-.]/)
formatDate_hinted(parts, inputFormatHint) ==
    CASE inputFormatHint = "DD/MM/YYYY" ->
            DateUTC(DigitsToNat(yearPart(parts[3])), DigitsToNat(parts[2]) - 1, DigitsToNat(parts[1]))
      [] inputFormatHint = "MM/DD/YYYY" ->
            DateUTC(DigitsToNat(yearPart(parts[3])), DigitsToNat(parts[1]) - 1, DigitsToNat(parts[2]))
      [] OTHER ->
            DateUTC(DigitsToNat(parts[1]), DigitsToNat(parts[2]) - 1, DigitsToNat(parts[3]))

\* the Date object of the last branch (lines 48-88), from
\* initialDateObj = new Date(dateString) and numericValue = parseInt(dateString, 10)
formatDate_unhinted(dateString, initialDateObj, numericValue) ==
    IF dateString # << >> /\ AllDigits(dateString)
    THEN IF initialDateObj.ok
         THEN IF CivilFromDays(initialDateObj.day).year = numericValue
              THEN IF numericValue >= 20000 /\ numericValue <= 80000
                   THEN SerialDate(numericValue)
                   ELSE initialDateObj
              ELSE initialDateObj
         ELSE IF Len(dateString) \in 4..5 /\ numericValue >= 1 /\ numericValue < 100000
              THEN SerialDate(numericValue)
              ELSE initialDateObj
    ELSE initialDateObj

\* the Date object formatDate settles on (lines 34-89)
formatDate_dateObj(dateString, inputFormatHint, h) ==
    IF \/ inputFormatHint \in { "DD/MM/YYYY", "MM/DD/YYYY" } /\ MatchesDayMonthYear(dateString)
       \/ inputFormatHint = "YYYY/MM/DD" /\ MatchesYearMonthDay(dateString)
    THEN formatDate_hinted(Split(dateString, DateSeparators), inputFormatHint)
    ELSE formatDate_unhinted(dateString, NewDate(dateString, h), DigitsToNat(dateString))

\* formatDate emits 'Could not parse date' (line 91-92)
formatDate_warns(dateString, inputFormatHint, h) ==
    ~formatDate_dateObj(dateString, inputFormatHint, h).ok

\* `${year}-${month}-${day}` of the UTC parts c: the year is not padded
\* (lines 97-100)
formatDate_text(c) ==
    NatToStr(c.year) \o << "-" >> \o PadStart2(NatToStr(c.month))
    \o << "-" >> \o PadStart2(NatToStr(c.day))

\* what formatDate returns for the Date object it settled on (lines 91-100)
formatDate_return(dateObj, dateString) ==
    IF ~dateObj.ok THEN dateString ELSE formatDate_text(CivilFromDays(dateObj.day))

\* YNABFormatter.formatDate(dateString, inputFormatHint)
formatDate(dateString, inputFormatHint, h) ==
    formatDate_return(formatDate_dateObj(dateString, inputFormatHint, h), dateString)

-----------------------------------------------------------------------------
(* The bank configuration table (bankConfigs).                             *)

F_TransferDate == << "T", "r", "a", "n", "s", "f", "e", "r", " ", "d", "a", "t", "e" >>

F_Date == << "D", "a", "t", "e" >>

F_Description == << "D", "e", "s", "c", "r", "i", "p", "t", "i", "o", "n" >>

F_Amount == << "A", "m", "o", "u", "n", "t" >>

F_Merchant == << "M", "e", "r", "c", "h", "a", "n", "t" >>

F_SubDescription == << "S", "u", "b", "-", "d", "e", "s", "c", "r", "i", "p", "t", "i", "o", "n" >>

Config(dateField, payeeField, skip, dateFormat) ==
    [ dateField        |-> dateField,
      descriptionField |-> F_Description,
      payeeField       |-> payeeField,
      amountField      |-> F_Amount,
      outflowField     |-> Undefined,
      inflowField      |-> Undefined,
      skipRows         |-> skip,
      dateFormat       |-> dateFormat,
      hasTransformAmount |-> TRUE ]

\* the institution keys of the table
BankKeys == { "eqbank", "amex", "scotiabank", "generic_dmy", "generic_mdy" }

\* property names the table object inherits from Object.prototype
InheritedKeys == { "constructor" }

\* what the lookup finds under an inherited name: an object with none of the
\* configuration's properties (config.skipRows || 0 is 0)
InheritedValue ==
    [ dateField        |-> Undefined,
      descriptionField |-> Undefined,
      payeeField       |-> Undefined,
      amountField      |-> Undefined,
      outflowField     |-> Undefined,
      inflowField      |-> Undefined,
      skipRows         |-> 0,
      dateFormat       |-> NoToken,
      hasTransformAmount |-> FALSE ]

\* no configuration in use
NoConfig == InheritedValue

\* the state of the App component before it is mounted
NoUi == [isProcessing |-> FALSE]

\* bankConfigs[b] is the property lookup of the code: it is defined for the own
\* keys of the table and for the names the object inherits
bankConfigs ==
    [ b \in BankKeys \cup InheritedKeys |->
        CASE b \in InheritedKeys -> InheritedValue
          [] b = "eqbank" -> Config(F_TransferDate, Undefined, 0, "DD MMM YYYY")
          [] b = "amex" -> Config(F_Date, F_Merchant, 12, "MM/DD/YYYY")
          [] b = "scotiabank" -> Config(F_Date, F_SubDescription, 0, "YYYY-MM-DD")
          [] b = "generic_dmy" -> Config(F_Date, Undefined, 0, "DD/MM/YYYY")
          [] b = "generic_mdy" -> Config(F_Date, Undefined, 0, "MM/DD/YYYY") ]

NumericChars == Digits \cup { ".", "-" }

\* eqbank.transformAmount: strip '$' and ',', parse, NaN becomes 0
transformAmount_eqbank(amount) ==
    IF amount # Undefined
    THEN LET num == ParseFloat(DropChars(amount, { "$", "," }))
         IN  IF IsNaN(num) THEN Fin(0) ELSE num
    ELSE Fin(0)

\* amex.transformAmount without the flip of the sign
transformAmount_amex_SignKept(amount) ==
    IF amount # Undefined
    THEN LET num == ParseFloat(KeepChars(amount, NumericChars))
         IN  IF IsNaN(num) THEN Fin(0) ELSE num
    ELSE Fin(0)

\* amex.transformAmount: keep [0-9.-], parse, NaN becomes 0, flip the sign
transformAmount_amex(amount) ==
    IF amount # Undefined
    THEN LET num == ParseFloat(KeepChars(amount, NumericChars))
         IN  IF IsNaN(num) THEN Fin(0) ELSE Negate(num)
    ELSE Fin(0)

\* scotiabank.transformAmount: strip '$' and ',', parse, NaN becomes 0, negate
transformAmount_scotiabank(amount) ==
    IF amount # Undefined
    THEN LET num == ParseFloat(DropChars(amount, { "$", "," }))
         IN  IF IsNaN(num) THEN Fin(0) ELSE Negate(num)
    ELSE Fin(0)

\* generic_dmy / generic_mdy transformAmount:
\* amount ? parseFloat(String(amount).replace(/[^0-9.-]/g, '')) : 0
transformAmount_generic(amount) ==
    IF amount # Undefined /\ amount # << >>
    THEN ParseFloat(KeepChars(String(amount), NumericChars))
    ELSE Fin(0)

\* config.transformAmount(outflowArg, inflowArg, amountArg) of institution b
transformAmount(b, outflow, inflow, amount) ==
    CASE b = "eqbank" -> transformAmount_eqbank(amount)
      [] b = "amex" -> transformAmount_amex(amount)
      [] b = "scotiabank" -> transformAmount_scotiabank(amount)
      [] OTHER -> transformAmount_generic(amount)

-----------------------------------------------------------------------------
(* Normalizer: getRowValue and the row callback of parseFile.              *)

\* a raw row is an object: a sequence of [k |-> header, v |-> cell] with
\* distinct headers, in insertion order
HasKey(row, key) == \E i \in 1..Len(row) : row[i].k = key

\* a lookup that only scans the keys after case folding
getRowValue_FoldedOnly(row, fieldNameFromConfig) ==
    IF fieldNameFromConfig = Undefined \/ fieldNameFromConfig = << >> THEN Undefined
    ELSE LET lowerConfigField == ToLowerCase(fieldNameFromConfig)
             hits == { i \in 1..Len(row) : ToLowerCase(row[i].k) = lowerConfigField }
         IN  IF hits = { } THEN Undefined
             ELSE row[CHOOSE i \in hits : \A j \in hits : i <= j].v

\* getRowValue(row, fieldNameFromConfig): exact key first, then the first key
\* that equals it after case folding, else undefined
getRowValue(row, fieldNameFromConfig) ==
    IF fieldNameFromConfig = Undefined \/ fieldNameFromConfig = << >> THEN Undefined
    ELSE IF HasKey(row, fieldNameFromConfig)
    THEN row[CHOOSE i \in 1..Len(row) : row[i].k = fieldNameFromConfig].v
    ELSE LET lowerConfigField == ToLowerCase(fieldNameFromConfig)
             hits == { i \in 1..Len(row) : ToLowerCase(row[i].k) = lowerConfigField }
         IN  IF hits = { } THEN Undefined
             ELSE row[CHOOSE i \in hits : \A j \in hits : i <= j].v

\* field ? String(getRowValue(row, field)) : undefined
StringArg(row, field) ==
    IF field = Undefined \/ field = << >> THEN Undefined
    ELSE String(getRowValue(row, field))

\* parseFloat(String(x).replace(/[^0-9.-]/g, '')) || 0
CleanedNumber(x) == OrZero(ParseFloat(KeepChars(String(x), NumericChars)))

\* an amount rule that looks at the configured fields before transformAmount
amountOf_FieldsFirst(row, config, b) ==
    IF config.amountField # Undefined
    THEN CleanedNumber(getRowValue(row, config.amountField))
    ELSE IF config.outflowField # Undefined /\ config.inflowField # Undefined
    THEN Minus(CleanedNumber(getRowValue(row, config.inflowField)),
               CleanedNumber(getRowValue(row, config.outflowField)))
    ELSE IF config.hasTransformAmount
    THEN transformAmount(b, StringArg(row, config.outflowField),
                         StringArg(row, config.inflowField),
                         StringArg(row, config.amountField))
    ELSE Fin(0)

\* the amount of a row under the configuration `config`, whose transformAmount,
\* when it has one, is that of institution b (lines 153-170)
amountOf(row, config, b) ==
    IF config.hasTransformAmount
    THEN transformAmount(b, StringArg(row, config.outflowField),
                         StringArg(row, config.inflowField),
                         StringArg(row, config.amountField))
    ELSE IF config.amountField # Undefined
    THEN CleanedNumber(getRowValue(row, config.amountField))
    ELSE IF config.outflowField # Undefined /\ config.inflowField # Undefined
    THEN Minus(CleanedNumber(getRowValue(row, config.inflowField)),
               CleanedNumber(getRowValue(row, config.outflowField)))
    ELSE Fin(0)

\* the amount of a row (lines 154-170)
ResolveAmount(row, b) == amountOf(row, bankConfigs[b], b)

\* x === undefined || x === null || String(x).trim() === ''
IsBlank(x) == x = Undefined \/ Trim(String(x)) = << >>

\* the skip test without its description half
RowSkipped_DateOnly(row, b) ==
    IsBlank(getRowValue(row, bankConfigs[b].dateField))

\* the row is skipped (lines 172-176)
RowSkipped(row, b) ==
    \/ IsBlank(getRowValue(row, bankConfigs[b].dateField))
    \/ IsBlank(getRowValue(row, bankConfigs[b].descriptionField))

Tx(d, desc, a, p) == [date |-> d, description |-> desc, amount |-> a, payee |-> p]

\* the null the row callback returns for a skipped row
NullTx == Tx(Undefined, Undefined, NaN, Undefined)

\* the configuration's dateFormat ahead of the caller's hint
effectiveDateFormat_ConfigFirst(hint, b) ==
    IF bankConfigs[b].dateFormat # NoToken THEN bankConfigs[b].dateFormat ELSE hint

\* uiDateFormatHint || config.dateFormat
effectiveDateFormat(hint, b) ==
    IF hint # NoToken /\ hint # "" THEN hint ELSE bankConfigs[b].dateFormat

\* a callback that gives a record without payee value an empty payee string
NormalizeRow_EmptyPayee(row, b, hint, h) ==
    LET config == bankConfigs[b]
        dateValue == getRowValue(row, config.dateField)
        descriptionValue == getRowValue(row, config.descriptionField)
        payeeValue == IF config.payeeField # Undefined
                      THEN getRowValue(row, config.payeeField)
                      ELSE Undefined
    IN  IF RowSkipped(row, b) THEN NullTx
        ELSE Tx(formatDate(String(dateValue), effectiveDateFormat(hint, b), h),
                Trim(String(descriptionValue)),
                ResolveAmount(row, b),
                IF ~IsBlank(payeeValue) THEN Trim(String(payeeValue)) ELSE << >>)

\* the callback of rawData.slice(...).map(...) (lines 148-189)
NormalizeRow(row, b, hint, h) ==
    LET config == bankConfigs[b]
        dateValue == getRowValue(row, config.dateField)
        descriptionValue == getRowValue(row, config.descriptionField)
        payeeValue == IF config.payeeField # Undefined
                      THEN getRowValue(row, config.payeeField)
                      ELSE Undefined
    IN  IF RowSkipped(row, b) THEN NullTx
        ELSE Tx(formatDate(String(dateValue), effectiveDateFormat(hint, b), h),
                Trim(String(descriptionValue)),
                ResolveAmount(row, b),
                IF ~IsBlank(payeeValue) THEN Trim(String(payeeValue)) ELSE Undefined)

\* a slice that discards skipRows rows of every input
SlicedRows_EveryInput(raw, ext, b) ==
    SubSeq(raw, bankConfigs[b].skipRows + 1, Len(raw))

\* rawData.slice(fileExtension === 'csv' ? (config.skipRows || 0) : 0)
SlicedRows(raw, ext, b) ==
    SubSeq(raw, (IF ext = "csv" THEN bankConfigs[b].skipRows ELSE 0) + 1, Len(raw))

\* mapped.filter(Boolean): the skipped rows' nulls are removed
RECURSIVE FilterBoolean(_)
FilterBoolean(xs) ==
    IF xs = << >> THEN << >>
    ELSE (IF Head(xs) # NullTx THEN << Head(xs) >> ELSE << >>) \o FilterBoolean(Tail(xs))

\* a >= b for strings over digits and '-' of equal length (UTF-16 code order)
RECURSIVE StringGE(_, _)
StringGE(a, b) ==
    LET code(c) == IF c = "-" THEN 0 - 1 ELSE DigitVal(c)
    IN  IF a = << >> \/ b = << >> THEN Len(a) >= Len(b)
        ELSE IF Head(a) = Head(b) THEN StringGE(Tail(a), Tail(b))
        ELSE code(Head(a)) > code(Head(b))

\* importStartDate && importStartDate.match(/^\d{4}-\d{2}-\d{2}$/)
FilterActive(start) == start # Undefined /\ start # << >> /\ IsISODate(start)

\* the filter callback with > in place of >=
KeptByStartDate_Exclusive(tx, start) ==
    IF tx.date = << >> \/ ~IsISODate(tx.date) THEN TRUE
    ELSE tx.date # start /\ StringGE(tx.date, start)

\* the callback of transactions.filter(...) (lines 195-201)
KeptByStartDate(tx, start) ==
    IF tx.date = << >> \/ ~IsISODate(tx.date) THEN TRUE ELSE StringGE(tx.date, start)

RECURSIVE FilterFromDate(_, _)
FilterFromDate(txs, start) ==
    IF txs = << >> THEN << >>
    ELSE (IF KeptByStartDate(Head(txs), start) THEN << Head(txs) >> ELSE << >>)
         \o FilterFromDate(Tail(txs), start)

\* the start date filter (lines 191-203)
FilterByStartDate(txs, start) ==
    IF FilterActive(start) THEN FilterFromDate(txs, start) ELSE txs

Warning(kind, row, text) == [kind |-> kind, row |-> row, text |-> text]

\* what the run passes to console.warn: a skipped row (with its 1-based number),
\* a date formatDate could not parse, a record the filter cannot compare, and
\* the summary of a run that extracted nothing; rows are the sliced rows, txs
\* the records before the start date filter and kept the ones after it
ParseWarnings(raw, rows, txs, kept, b, fmt, start, h) ==
    { Warning("skip", i + bankConfigs[b].skipRows, << >>) :
          i \in { j \in 1..Len(rows) : RowSkipped(rows[j], b) } }
    \cup { Warning("date", 0, String(getRowValue(rows[i], bankConfigs[b].dateField))) :
          i \in { j \in 1..Len(rows) :
                    /\ ~RowSkipped(rows[j], b)
                    /\ formatDate_warns(String(getRowValue(rows[j], bankConfigs[b].dateField)), fmt, h) } }
    \cup { Warning("unfilterable", 0, txs[i].date) :
          i \in { j \in 1..Len(txs) : FilterActive(start) /\ ~IsISODate(txs[j].date) } }
    \cup { Warning("empty", 0, << >>) : x \in { y \in { 1 } : kept = << >> /\ Len(raw) > 0 } }

-----------------------------------------------------------------------------
(* Ingestion adapter: parseXLSX on the sheet's array of arrays.            *)

DateLower == << "d", "a", "t", "e" >>

\* row && row.length > 0 && String(row[0]).trim().toLowerCase() === "date"
StartsWithDate(row) == Len(row) > 0 /\ ToLowerCase(Trim(String(row[1]))) = DateLower

\* the header search made whatever skipRows is
HeaderRowIndex_AlwaysScan(sheet, skipRows) ==
    LET found == { i \in 1..Len(sheet) : StartsWithDate(sheet[i]) }
    IN  IF found # { }
        THEN (CHOOSE i \in found : \A j \in found : i <= j) - 1
        ELSE skipRows

\* headerRowIndex (0-based): skipRows, or with skipRows >= 10 the first row
\* whose first cell is "date" (lines 266-278)
HeaderRowIndex(sheet, skipRows) ==
    LET found == { i \in 1..Len(sheet) : StartsWithDate(sheet[i]) }
    IN  IF skipRows >= 10 /\ found # { }
        THEN (CHOOSE i \in found : \A j \in found : i <= j) - 1
        ELSE skipRows

\* rowObject[key] = value
SetKey(row, key, value) ==
    IF HasKey(row, key)
    THEN [ i \in 1..Len(row) |-> IF row[i].k = key THEN [k |-> key, v |-> value] ELSE row[i] ]
    ELSE Append(row, [k |-> key, v |-> value])

\* rowArray.forEach(...) over the first n cells: a cell is kept under its
\* column's header when that header is non-empty (lines 289-304)
RECURSIVE RowObject(_, _, _)
RowObject(headers, rowArray, n) ==
    IF n = 0 THEN << >>
    ELSE LET prev == RowObject(headers, rowArray, n - 1)
         IN  IF n <= Len(headers) /\ headers[n] # << >>
             THEN SetKey(prev, headers[n], String(rowArray[n]))
             ELSE prev

\* what parseXLSX resolves with for the array of arrays `sheet` (lines 259-307)
parseXLSX(sheet, skipRows) ==
    LET headerRowIndex == HeaderRowIndex(sheet, skipRows)
        headers == sheet[headerRowIndex + 1]
        dataRows == SubSeq(sheet, headerRowIndex + 2, Len(sheet))
    IN  IF Len(sheet) = 0 THEN << >>
        ELSE IF headerRowIndex >= Len(sheet) THEN << >>
        ELSE [ i \in 1..Len(dataRows) |-> RowObject(headers, dataRows[i], Len(dataRows[i])) ]

-----------------------------------------------------------------------------
(* Ledger exporter: formatDateForOutput and convertToYNABTransactions.     *)

\* formatDateForOutput with day and month exchanged under 'Month/Day/Year'
formatDateForOutput_DayMonthSwapped(isoDate, formatKey) ==
    IF isoDate = << >> \/ ~IsISODate(isoDate) THEN isoDate
    ELSE LET year == SubSeq(isoDate, 1, 4)
             month == SubSeq(isoDate, 6, 7)
             day == SubSeq(isoDate, 9, 10)
         IN  CASE formatKey = "Day/Month/Year" -> day \o << "/" >> \o month \o << "/" >> \o year
               [] formatKey = "Month/Day/Year" -> day \o << "/" >> \o month \o << "/" >> \o year
               [] formatKey = "Year/Month/Day" -> year \o << "/" >> \o month \o << "/" >> \o day
               [] OTHER -> isoDate

\* YNABFormatter.formatDateForOutput(isoDate, formatKey)
formatDateForOutput(isoDate, formatKey) ==
    IF isoDate = << >> \/ ~IsISODate(isoDate) THEN isoDate
    ELSE LET year == SubSeq(isoDate, 1, 4)
             month == SubSeq(isoDate, 6, 7)
             day == SubSeq(isoDate, 9, 10)
         IN  CASE formatKey = "Day/Month/Year" -> day \o << "/" >> \o month \o << "/" >> \o year
               [] formatKey = "Month/Day/Year" -> month \o << "/" >> \o day \o << "/" >> \o year
               [] formatKey = "Year/Month/Day" -> year \o << "/" >> \o month \o << "/" >> \o day
               [] OTHER -> isoDate

\* if (transaction.payee): undefined and "" are falsy
HasPayee(transaction) ==
    transaction.payee # Undefined /\ transaction.payee # << >>

\* the "Determine Payee" block with the importMemos test left out
finalPayee_SwapOnly(transaction, opts) ==
    IF HasPayee(transaction) THEN transaction.payee
    ELSE IF opts.swapPayeesMemos THEN transaction.description
    ELSE << >>

\* the "Determine Payee" block
finalPayee(transaction, opts) ==
    IF HasPayee(transaction) THEN transaction.payee
    ELSE IF opts.importMemos /\ opts.swapPayeesMemos THEN transaction.description
    ELSE << >>

\* the "Determine Memo" block without the payee branch: the swap option decides
finalMemo_NoPayeeBranch(transaction, opts) ==
    IF opts.importMemos
    THEN IF opts.swapPayeesMemos THEN << >> ELSE transaction.description
    ELSE << >>

\* the "Determine Memo" block with the payee branch ahead of the importMemos test
finalMemo_PayeeFirst(transaction, opts) ==
    IF HasPayee(transaction) THEN transaction.description
    ELSE IF opts.importMemos /\ ~opts.swapPayeesMemos THEN transaction.description
    ELSE << >>

\* the "Determine Memo" block
finalMemo(transaction, opts) ==
    IF opts.importMemos
    THEN IF HasPayee(transaction) THEN transaction.description
         ELSE IF opts.swapPayeesMemos THEN << >>
         ELSE transaction.description
    ELSE << >>

finalOutflow(transaction) ==
    IF Negative(transaction.amount) THEN ToFixed2(Abs(transaction.amount)) ELSE << >>

\* finalInflow with amount >= 0 in place of amount > 0
finalInflow_ZeroIncluded(transaction) ==
    IF ~Negative(transaction.amount) /\ ~IsNaN(transaction.amount)
    THEN ToFixed2(transaction.amount)
    ELSE << >>

finalInflow(transaction) ==
    IF Positive(transaction.amount) THEN ToFixed2(transaction.amount) ELSE << >>

\* the callback of transactions.map(...) in convertToYNABTransactions
ToYNABTransaction(transaction, opts) ==
    [ Date     |-> formatDateForOutput(transaction.date, opts.outputDateFormat),
      Payee    |-> finalPayee(transaction, opts),
      Category |-> << >>,
      Memo     |-> finalMemo(transaction, opts),
      Outflow  |-> finalOutflow(transaction),
      Inflow   |-> finalInflow(transaction) ]

\* YNABFormatter.convertToYNABTransactions(txs, opts)
convertToYNABTransactions(txs, opts) ==
    [ i \in 1..Len(txs) |-> ToYNABTransaction(txs[i], opts) ]

-----------------------------------------------------------------------------
(* The conversion run: state shared by the specifications.                 *)

NoFile ==
    [name |-> << >>, fails |-> FALSE, failure |-> "", data |-> << >>, sheet |-> << >>, errors |-> 0]

NoError == "<none>"

\* setStatusMessage({ type, text }): the text is the list of the parts of its
\* template literal
Status(type, text) == [type |-> type, text |-> text]

NoStatus == Status("none", << >>)

\* a caller that reports every resolved parse as a success
ParsedStatus_AlwaysSuccess(n, name) ==
    Status("success",
           << NatToStr(n), " transactions loaded from ", name, ". Ready for import preview." >>)

\* the status after a parse that returned n records of the file named `name`
\* (App.processAndSetTransactions, first load)
ParsedStatus(n, name) ==
    IF n = 0
    THEN Status("warning",
                << "No transactions found in ", name,
                   " with current settings. Check file, bank selection, input date format, or bank configuration (skipRows, field names)." >>)
    ELSE Status("success",
                << NatToStr(n), " transactions loaded from ", name, ". Ready for import preview." >>)

\* the status after parseFile rejected with an error of this message
ErrorStatus(message) == Status("error", << "Error processing file: ", message, "." >>)

NoOptions == [importMemos |-> FALSE, swapPayeesMemos |-> FALSE, outputDateFormat |-> NoToken]

\* the option sets a caller can pass: the three tokens of the UI's select, no
\* token, and a token formatDateForOutput does not know
OutputDateFormats == { "Day/Month/Year", "Month/Day/Year", "Year/Month/Day", NoToken, "DD.MM.YYYY" }

OptionSets ==
    [ importMemos : BOOLEAN, swapPayeesMemos : BOOLEAN, outputDateFormat : OutputDateFormats ]

\* sequences over S of length at most n
BoundedSeq(S, n) == UNION { [1..k -> S] : k \in 0..n }

\* const ynabTransactions = YNABFormatter.convertToYNABTransactions(parsedTransactions, opts)
ConvertToYNAB(opts) ==
    /\ pc = "resolved"
    /\ pc' = "converted"
    /\ options' = opts
    /\ ynabTransactions' = convertToYNABTransactions(parsedTransactions, opts)
    /\ UNCHANGED << host, file, bankType, uiDateFormatHint, importStartDate, rawData,
                    mapped, transactions, parsedTransactions, error, warnings, reader,
                    statusMessage, ynabCsvString, skipRowsArg, rowConfig, rowAmount, configTable, calls, frames, ui >>

\* YNAB_CSV_HEADER_ARRAY
YNAB_CSV_HEADER_ARRAY ==
    << << "D", "a", "t", "e" >>, << "P", "a", "y", "e", "e" >>, << "C", "a", "t", "e", "g", "o", "r", "y" >>,
       << "M", "e", "m", "o" >>, << "O", "u", "t", "f", "l", "o", "w" >>, << "I", "n", "f", "l", "o", "w" >> >>

\* XLSX.utils.json_to_sheet(data, { header, skipHeader: false }): the header
\* row, then one row per object with its values in the order of the header;
\* an empty string is a cell like any other
json_to_sheet(data, header) ==
    << header >>
    \o [ i \in 1..Len(data) |->
            << data[i].Date, data[i].Payee, data[i].Category, data[i].Memo,
               data[i].Outflow, data[i].Inflow >> ]

\* the text of every " doubled
RECURSIVE DoubleQuotes(_)
DoubleQuotes(txt) ==
    IF txt = << >> THEN << >>
    ELSE (IF Head(txt) = "\"" THEN << "\"", "\"" >> ELSE << Head(txt) >>)
         \o DoubleQuotes(Tail(txt))

\* a cell of the document: quoted when it holds the separator, a line break
\* or a quote
CsvCell(txt) ==
    IF \E i \in 1..Len(txt) : txt[i] \in { ",", "\n", "\"" }
    THEN << "\"" >> \o DoubleQuotes(txt) \o << "\"" >>
    ELSE txt

\* the texts joined by the separator
RECURSIVE JoinWith(_, _)
JoinWith(texts, sep) ==
    IF texts = << >> THEN << >>
    ELSE IF Len(texts) = 1 THEN texts[1]
    ELSE texts[1] \o << sep >> \o JoinWith(Tail(texts), sep)

CsvLine(cells) == JoinWith([ c \in 1..Len(cells) |-> CsvCell(cells[c]) ], ",")

\* a document that leaves out the rows all of whose cells are empty
sheet_to_csv_NoBlankRows(sheet) ==
    JoinWith([ r \in 1..Len(SelectSeq(sheet, LAMBDA row : \E c \in 1..Len(row) : row[c] # << >>)) |->
                 CsvLine(SelectSeq(sheet, LAMBDA row : \E c \in 1..Len(row) : row[c] # << >>)[r]) ],
             "\n")

\* XLSX.utils.sheet_to_csv(worksheet, { FS: ',' }): one line per row of the
\* sheet, blank rows included, the lines separated by a line break
sheet_to_csv(sheet) == JoinWith([ r \in 1..Len(sheet) |-> CsvLine(sheet[r]) ], "\n")

\* YNABFormatter.generateYNABCSVString(ynabTransactions)
generateYNABCSVString(txs) == sheet_to_csv(json_to_sheet(txs, YNAB_CSV_HEADER_ARRAY))

\* handleImport after the conversion: the document is generated
GenerateYNABCSV ==
    /\ pc = "converted"
    /\ pc' = "generated"
    /\ ynabCsvString' = generateYNABCSVString(ynabTransactions)
    /\ UNCHANGED << host, file, bankType, uiDateFormatHint, importStartDate, rawData,
                    mapped, transactions, parsedTransactions, error, warnings, reader,
                    statusMessage, options, ynabTransactions, skipRowsArg, rowConfig, rowAmount, configTable, calls, frames, ui >>

-----------------------------------------------------------------------------
(* SpecConvert: convertToYNABTransactions on canonical records.            *)

DescCoffee == << "C", "o", "f", "f", "e", "e" >>

DescRent == << "R", "e", "n", "t" >>

PayeeSbux == << "S", "b", "u", "x" >>

Date_2023_01_31 == << "2", "0", "2", "3", "-", "0", "1", "-", "3", "1" >>

Date_2023_12_05 == << "2", "0", "2", "3", "-", "1", "2", "-", "0", "5" >>

\* dates that are not of the form YYYY-MM-DD
RawInvalidDate == << "i", "n", "v", "a", "l", "i", "d", "-", "d", "a", "t", "e" >>

Raw_31_12_2023 == << "3", "1", "/", "1", "2", "/", "2", "0", "2", "3" >>

Raw_2023_1_31 == << "2", "0", "2", "3", "-", "1", "-", "3", "1" >>

Raw_12023_01_31 == << "1", "2", "0", "2", "3", "-", "0", "1", "-", "3", "1" >>

Raw_123_02_01 == << "1", "2", "3", "-", "0", "2", "-", "0", "1" >>

\* canonical records: every amount sign, with and without payee, dates of
\* canonical and of other forms
\* a description with the separator, a quote and a line break
DescQuoted == << "A", ",", "\"", "\n", "B" >>

CanonPool ==
    { Tx(Date_2023_01_31, DescCoffee, Fin(a), Undefined) : a \in { -1050, -1, 0, 1, 20000 } }
    \cup { Tx(<< >>, DescRent, Fin(0), Undefined), Tx(Date_2023_12_05, DescQuoted, Fin(1), Undefined) }
    \cup { Tx(Date_2023_01_31, d, Fin(-1050), p) :
              d \in { DescCoffee, DescRent }, p \in { Undefined, << >>, PayeeSbux } }
    \cup { Tx(d, DescRent, Fin(1), PayeeSbux) :
              d \in { Date_2023_01_31, Date_2023_12_05, RawInvalidDate, Raw_31_12_2023,
                      Raw_2023_1_31, Raw_12023_01_31, Raw_123_02_01, << >> } }

InitConvert ==
    /\ pc = "resolved"
    /\ host = [tz |-> 0, lenient |-> TRUE]
    /\ file = NoFile
    /\ bankType = ""
    /\ uiDateFormatHint = NoToken
    /\ importStartDate = Undefined
    /\ rawData = << >>
    /\ mapped = << >>
    /\ transactions = << >>
    /\ parsedTransactions \in BoundedSeq(CanonPool, MaxTx)
    /\ error = NoError
    /\ warnings = { }
    /\ options = NoOptions
    /\ ynabTransactions = << >>
    /\ reader = "none"
    /\ statusMessage = NoStatus
    /\ ynabCsvString = << >>
    /\ skipRowsArg = 0
    /\ rowConfig = NoConfig
    /\ rowAmount = NaN
    /\ configTable = bankConfigs
    /\ calls = << >>
    /\ frames = << >>
    /\ ui = NoUi

NextConvert ==
    \/ \E opts \in OptionSets : ConvertToYNAB(opts)
    \/ GenerateYNABCSV

SpecConvert == InitConvert /\ [][NextConvert]_vars

-----------------------------------------------------------------------------
(* parseFile.                                                              *)

Ext_csv == << "c", "s", "v" >>

Ext_xlsx == << "x", "l", "s", "x" >>

Ext_xls == << "x", "l", "s" >>

\* file.name.split('.').pop()?.toLowerCase()
fileExtension(f) ==
    LET parts == Split(f.name, { "." })
    IN  ToLowerCase(parts[Len(parts)])

\* the code of the extension branch taken (line 148 compares with 'csv')
ExtKind(f) == IF fileExtension(f) = Ext_csv THEN "csv" ELSE "xlsx"

UnsupportedFileType == "Unsupported file type. Please upload CSV, XLS, or XLSX."

\* `Unsupported bank type: ${bankType}. No configuration found.`
UnsupportedBankType(b) == "Unsupported bank type: " \o b \o ". No configuration found."

\* the message of the Error parseFile throws before it calls a decoder, or
\* NoError (lines 130-146)
parseFile_throws(f, b) ==
    IF b \notin DOMAIN bankConfigs THEN UnsupportedBankType(b)
    ELSE IF fileExtension(f) \notin { Ext_csv, Ext_xlsx, Ext_xls } THEN UnsupportedFileType
    ELSE NoError

\* the caller sets its status and calls parseFile, which runs up to its await:
\* the configuration lookup, the extension test and the call of the decoder
\* (lines 129-146); a throw reaches the caller's catch at once
ParseFile(f, b, hint, start) ==
    /\ pc = "idle"
    /\ file' = f
    /\ bankType' = b
    /\ uiDateFormatHint' = hint
    /\ importStartDate' = start
    /\ error' = parseFile_throws(f, b)
    /\ skipRowsArg' = IF b \in DOMAIN bankConfigs THEN bankConfigs[b].skipRows ELSE 0
    /\ IF error' # NoError
       THEN /\ pc' = "rejected"
            /\ reader' = "none"
            /\ statusMessage' = ErrorStatus(error')
       ELSE /\ pc' = "reading"
            /\ reader' = IF fileExtension(f) = Ext_csv THEN "parseCSV" ELSE "parseXLSX"
            /\ statusMessage' = Status("info", << "Processing ", f.name, "..." >>)
    /\ UNCHANGED << host, rawData, mapped, transactions, parsedTransactions, warnings,
                    options, ynabTransactions, ynabCsvString, rowConfig, rowAmount, configTable, calls, frames, ui >>

\* the rows of `raw` the row callback runs on, mapped by it (lines 148-189)
MappedRows(rows, b, hint, h) == [ i \in 1..Len(rows) |-> NormalizeRow(rows[i], b, hint, h) ]

\* parseFile after its await, with the rows `raw` of the reader (lines 148-219)
Resolve(raw) ==
    /\ rawData' = raw
    /\ mapped' = MappedRows(SlicedRows(raw, ExtKind(file), bankType), bankType,
                            uiDateFormatHint, host)
    /\ transactions' = FilterBoolean(mapped')
    /\ parsedTransactions' = FilterByStartDate(transactions', importStartDate)
    /\ warnings' = ParseWarnings(raw, SlicedRows(raw, ExtKind(file), bankType),
                                 transactions', parsedTransactions', bankType,
                                 effectiveDateFormat(uiDateFormatHint, bankType),
                                 importStartDate, host)
    /\ pc' = "resolved"
    /\ statusMessage' = ParsedStatus(Len(parsedTransactions'), file.name)
    /\ UNCHANGED << host, file, bankType, uiDateFormatHint, importStartDate, error,
                    options, ynabTransactions, reader, ynabCsvString, skipRowsArg, rowConfig, rowAmount, configTable, calls, frames, ui >>

\* a rejection that replaces the decoder's error by one of its own
Reject_Wrapped(e) ==
    /\ pc' = "rejected"
    /\ error' = "decode error"
    /\ statusMessage' = ErrorStatus(error')
    /\ UNCHANGED << host, file, bankType, uiDateFormatHint, importStartDate, rawData,
                    mapped, transactions, parsedTransactions, warnings, options,
                    ynabTransactions, reader, ynabCsvString, skipRowsArg, rowConfig, rowAmount, configTable, calls, frames, ui >>

\* the decoder rejects with the error e: the await of parseFile throws it and
\* the caller's catch reports it
Reject(e) ==
    /\ pc' = "rejected"
    /\ error' = e
    /\ statusMessage' = ErrorStatus(error')
    /\ UNCHANGED << host, file, bankType, uiDateFormatHint, importStartDate, rawData,
                    mapped, transactions, parsedTransactions, warnings, options,
                    ynabTransactions, reader, ynabCsvString, skipRowsArg, rowConfig, rowAmount, configTable, calls, frames, ui >>

\* Papa.parse calls complete(results): parseCSV resolves with results.data
CSVComplete ==
    /\ pc = "reading"
    /\ fileExtension(file) = Ext_csv
    /\ ~file.fails
    /\ Resolve(file.data)

\* Papa.parse calls error(error): parseCSV rejects
CSVError ==
    /\ pc = "reading"
    /\ fileExtension(file) = Ext_csv
    /\ file.fails
    /\ Reject(file.failure)

\* a read that rejects when the sheet has no row at the header index
XLSXLoad_HeaderlessRejects ==
    /\ pc = "reading"
    /\ fileExtension(file) \in { Ext_xlsx, Ext_xls }
    /\ ~file.fails
    /\ IF HeaderRowIndex(file.sheet, skipRowsArg) >= Len(file.sheet)
       THEN Reject("Header row not found or skipRows is too large.")
       ELSE Resolve(parseXLSX(file.sheet, skipRowsArg))

\* reader.onload: the workbook is read and parseXLSX resolves
XLSXLoad ==
    /\ pc = "reading"
    /\ fileExtension(file) \in { Ext_xlsx, Ext_xls }
    /\ ~file.fails
    /\ Resolve(parseXLSX(file.sheet, skipRowsArg))

\* reader.onerror, or XLSX.read throws: parseXLSX rejects
XLSXError ==
    /\ pc = "reading"
    /\ fileExtension(file) \in { Ext_xlsx, Ext_xls }
    /\ file.fails
    /\ Reject(file.failure)

-----------------------------------------------------------------------------
(* Spec: one conversion run, from parseFile to the exported records.       *)

\* the columns of the input files, in file order
Headers == << F_Date, F_TransferDate, F_Description, F_SubDescription, F_Merchant, F_Amount >>

\* the cells of one input row in the order of Headers; Undefined cells stand
\* for columns the file does not have
Cells(d, desc, p, a) == << d, d, desc, p, p, a >>

\* the row object the CSV parser builds from the cells
RECURSIVE CsvRow(_, _)
CsvRow(cells, n) ==
    IF n = 0 THEN << >>
    ELSE IF cells[n] = Undefined THEN CsvRow(cells, n - 1)
    ELSE Append(CsvRow(cells, n - 1), [k |-> Headers[n], v |-> cells[n]])

\* the array the sheet decoder builds from the cells (defval: "")
SheetRow(cells) == [ n \in 1..Len(cells) |-> IF cells[n] = Undefined THEN << >> ELSE cells[n] ]

Date_2023_01_15 == << "2", "0", "2", "3", "-", "0", "1", "-", "1", "5" >>

Date_2023_01_01 == << "2", "0", "2", "3", "-", "0", "1", "-", "0", "1" >>

Raw_1_2_123 == << "1", "/", "2", "/", "1", "2", "3" >>

Raw_07_25_2023 == << "0", "7", "/", "2", "5", "/", "2", "0", "2", "3" >>

Raw_01_Jan_2023 == << "0", "1", " ", "J", "a", "n", " ", "2", "0", "2", "3" >>

Raw_44926 == << "4", "4", "9", "2", "6" >>

Raw_07_08_2023 == << "0", "7", "/", "0", "8", "/", "2", "0", "2", "3" >>

\* text of the ISO shape that names no calendar date
Raw_2022_13_45 == << "2", "0", "2", "2", "-", "1", "3", "-", "4", "5" >>

Raw_99999 == << "9", "9", "9", "9", "9" >>

Blanks == << " ", " " >>

Amt_37_88 == << "3", "7", ".", "8", "8" >>

\* amount cells with the signed amount, in hundredths, the statement means
SourceAmounts ==
    { [cell |-> Amt_37_88, value |-> 3788],
      [cell |-> << "-", "5", "1", "2", "4", ".", "0", "7" >>, value |-> 0 - 512407],
      [cell |-> << "$", "1", ",", "2", "3", "4", ".", "5", "6" >>, value |-> 123456],
      [cell |-> << "-", "$", "1", "8", "0" >>, value |-> 0 - 18000],
      [cell |-> << "1", "0", ".", "5", "0" >>, value |-> 1050] }

\* amount cells that are no number: empty, text, a lone sign, the word Infinity
OtherAmountCells ==
    { << >>, << "a", "b", "c" >>, << "-" >>, << "0" >>, << "N", "/", "A" >>, InfinityText }

\* every raw amount cell of the model; Undefined is the absent column
AmountCells == { e.cell : e \in SourceAmounts } \cup OtherAmountCells \cup { Undefined }

DateCells ==
    { Date_2023_01_15, Date_2023_01_01, RawInvalidDate, Raw_1_2_123, Raw_07_25_2023,
      Raw_01_Jan_2023, Raw_44926, Raw_99999, Raw_31_12_2023, Raw_07_08_2023, Raw_2022_13_45 }

\* rows that are kept and rows that are skipped: blank date, empty description
ValidityRows ==
    { Cells(Date_2023_01_15, DescCoffee, PayeeSbux, Amt_37_88),
      Cells(Date_2023_01_01, << " " >> \o DescRent \o << " " >>, Blanks, << "0" >>),
      Cells(Blanks, DescCoffee, PayeeSbux, Amt_37_88),
      Cells(Date_2023_01_15, << >>, PayeeSbux, Amt_37_88) }

SheetDataCells == Cells(Date_2023_01_15, DescCoffee, PayeeSbux, Amt_37_88)

\* a row of a file without description and payee columns
ColumnlessRow == Cells(Date_2023_01_15, Undefined, Undefined, Amt_37_88)

AmountRows == { Cells(Date_2023_01_15, DescCoffee, PayeeSbux, a) : a \in AmountCells }

DateRows == { Cells(d, DescCoffee, Undefined, Amt_37_88) : d \in DateCells }

\* header names in another letter case than the table's field names
K_TRANSFER_DATE == << "T", "R", "A", "N", "S", "F", "E", "R", " ", "D", "A", "T", "E" >>

K_DATE == << "D", "A", "T", "E" >>

K_DESCRIPTION == << "D", "E", "S", "C", "R", "I", "P", "T", "I", "O", "N" >>

K_description == << "d", "e", "s", "c", "r", "i", "p", "t", "i", "o", "n" >>

K_amount == << "a", "m", "o", "u", "n", "t" >>

Cell(k, v) == [k |-> k, v |-> v]

\* a row object with the key DESCRIPTION ahead of the exact key Description
ExactAndFoldedRow ==
    << Cell(K_TRANSFER_DATE, Date_2023_01_15), Cell(K_DATE, Date_2023_01_15),
       Cell(K_DESCRIPTION, DescRent), Cell(F_Description, DescCoffee),
       Cell(K_amount, Amt_37_88) >>

\* a row object none of whose keys is written as the table writes it
FoldedOnlyRow ==
    << Cell(K_TRANSFER_DATE, Date_2023_01_15), Cell(K_DATE, Date_2023_01_15),
       Cell(K_description, DescRent), Cell(K_DESCRIPTION, DescCoffee),
       Cell(K_amount, Amt_37_88) >>

\* the cell rows of the input files: up to MaxRows rows that are kept or
\* skipped, and one-row files over every amount cell and every date cell
FileRows ==
    BoundedSeq(ValidityRows, MaxRows)
    \cup { << r >> : r \in AmountRows \cup DateRows \cup { ColumnlessRow } }

\* a statement longer than the largest skipRows of the table: leading rows,
\* then a row with a blank date and a credit of 180.00
StatementRows ==
    [ i \in 1..(bankConfigs["amex"].skipRows + 2) |->
        IF i <= bankConfigs["amex"].skipRows
        THEN Cells(Date_2023_01_01, DescRent, Undefined, << "0" >>)
        ELSE IF i = bankConfigs["amex"].skipRows + 1
        THEN Cells(Blanks, DescCoffee, PayeeSbux, Amt_37_88)
        ELSE Cells(Date_2023_01_15, DescCoffee, PayeeSbux, << "-", "$", "1", "8", "0" >>) ]

Name_csv == << "a", ".", "c", "s", "v" >>

Name_xlsx == << "b", ".", "x", "l", "s", "x" >>

Name_XLS == << "c", ".", "X", "L", "S" >>

Name_txt == << "d", ".", "t", "x", "t" >>

\* a file name without a dot: split('.') returns the whole name
Name_dotless == << "c", "s", "v" >>

\* a file: its name, the error its decoder fails with (NoError when it does
\* not fail), and what its decoder returns:
\* the CSV parser's results.data, or the sheet's array of arrays
File(name, failure, data, sheet) ==
    [name |-> name, fails |-> failure # NoError, failure |-> failure, data |-> data,
     sheet |-> sheet, errors |-> 0]

\* a delimited-text file n of whose rows the parser reports in results.errors
\* while it returns the rows in results.data
WithRowErrors(f, n) == [f EXCEPT !.errors = n]

\* what the CSV parser returns for the cell rows
CsvContent(rows) == [ i \in 1..Len(rows) |-> CsvRow(rows[i], Len(rows[i])) ]

\* what the sheet decoder returns: `pre` title rows, the header row, the rows
SheetContent(rows, pre) ==
    [ i \in 1..pre |-> << << "S", "u", "m", "m", "a", "r", "y" >> >> ]
    \o << Headers >> \o [ i \in 1..Len(rows) |-> SheetRow(rows[i]) ]

\* the errors a decoder fails with: the CSV parser's error callback, the file
\* reader's onerror, and an exception of the workbook decoder
DecoderErrors == { "CSV parsing error", "The file could not be read", "Unsupported workbook" }

Files ==
    { File(Name_csv, NoError, CsvContent(rows), << >>) : rows \in FileRows \cup { StatementRows } }
    \cup { File(Name_xlsx, NoError, << >>, SheetContent(rows, 0)) :
              rows \in BoundedSeq(ValidityRows, MaxRows) }
    \cup { File(Name_xlsx, NoError, << >>, SheetContent(rows, 1)) :
              rows \in BoundedSeq(ValidityRows, 1) }
    \cup { File(Name_xlsx, NoError, << >>, SheetContent(<< r >>, 0)) : r \in AmountRows }
    \cup { File(Name_XLS, NoError, << >>, << >>), File(Name_txt, NoError, << >>, << >>),
           File(Name_dotless, NoError, CsvContent(<< ColumnlessRow >>), << >>),
           File(Name_csv, NoError, << ExactAndFoldedRow >>, << >>),
           WithRowErrors(File(Name_csv, NoError,
                              CsvContent(<< ColumnlessRow, SheetDataCells >>), << >>), 1),
           File(Name_csv, NoError, << FoldedOnlyRow >>, << >>),
           File(Name_xlsx, NoError, << >>, << SheetRow(SheetDataCells), SheetRow(SheetDataCells) >>),
           File(Name_csv, "CSV parsing error", << >>, << >>),
           File(Name_xlsx, "The file could not be read", << >>, << >>),
           File(Name_XLS, "Unsupported workbook", << >>, << >>) }

\* institution keys a caller passes: the table's and one it does not hold
BankTypes == BankKeys \cup InheritedKeys \cup { "unsupported" }

\* date format hints a caller passes: none, the empty string, two strict
\* tokens, the UI's token
UiDateFormatHints == { NoToken, "", "DD/MM/YYYY", "MM/DD/YYYY", "Day/Month/Year" }

\* a start date that is not of the form YYYY-MM-DD
Start_15_01_2023 == << "1", "5", "/", "0", "1", "/", "2", "0", "2", "3" >>

\* start dates a caller passes: none, the empty string, a date, a malformed one
StartDates == { Undefined, << >>, Date_2023_01_15, Start_15_01_2023 }

\* the hosts: at UTC with a lenient or a strict Date.parse, and east of UTC
Hosts ==
    { [tz |-> 0, lenient |-> TRUE], [tz |-> 0, lenient |-> FALSE], [tz |-> 2, lenient |-> TRUE] }

\* the options handleImport passes
ImportOptionSets ==
    [ importMemos : { TRUE }, swapPayeesMemos : BOOLEAN, outputDateFormat : { "Day/Month/Year" } ]

Init ==
    /\ pc = "idle"
    /\ host \in Hosts
    /\ file = NoFile
    /\ bankType = ""
    /\ uiDateFormatHint = NoToken
    /\ importStartDate = Undefined
    /\ rawData = << >>
    /\ mapped = << >>
    /\ transactions = << >>
    /\ parsedTransactions = << >>
    /\ error = NoError
    /\ warnings = { }
    /\ options = NoOptions
    /\ ynabTransactions = << >>
    /\ reader = "none"
    /\ statusMessage = NoStatus
    /\ ynabCsvString = << >>
    /\ skipRowsArg = 0
    /\ rowConfig = NoConfig
    /\ rowAmount = NaN
    /\ configTable = bankConfigs
    /\ calls = << >>
    /\ frames = << >>
    /\ ui = NoUi

Next ==
    \/ /\ pc = "idle"
       /\ \E f \in Files, b \in BankTypes, hint \in UiDateFormatHints, start \in StartDates :
             ParseFile(f, b, hint, start)
    \/ CSVComplete
    \/ CSVError
    \/ XLSXLoad
    \/ XLSXError
    \/ \E opts \in ImportOptionSets : ConvertToYNAB(opts)

Spec == Init /\ [][Next]_vars

-----------------------------------------------------------------------------
(* SpecSheet: parseXLSX on sheets, for every skipRows.                     *)

TitleRow == << << "S", "u", "m", "m", "a", "r", "y" >> >>

\* a header row whose first cell is "date" in another spelling
SpacedDateRow == << << " ", "D", "A", "T", "E", " " >>, F_Description, F_Amount >>

\* a header row whose first cell is not "date"
PostedRow == << << "P", "o", "s", "t", "e", "d" >>, F_Description, F_Amount >>

SheetDataRow == SheetRow(SheetDataCells)

SheetRowKinds == { TitleRow, Headers, SpacedDateRow, PostedRow, SheetDataRow }

\* n title rows ahead of the rows
PaddedSheet(n, rows) == [ i \in 1..n |-> TitleRow ] \o rows

\* the sheets of the first worksheet: short ones, and ones whose rows follow
\* ten or twelve title rows
Sheets ==
    BoundedSeq(SheetRowKinds, MaxRows + 1)
    \cup { PaddedSheet(n, rows) : n \in { 10, 12 }, rows \in BoundedSeq(SheetRowKinds, 2) }

\* skipRows values on both sides of the threshold of the header search
SkipRowsValues == { 0, 1, 2, 9, 10, 12, 13 }

InitSheet ==
    /\ pc = "sheet"
    /\ host = [tz |-> 0, lenient |-> TRUE]
    /\ file \in { File(Name_xlsx, NoError, << >>, sheet) : sheet \in Sheets }
    /\ skipRowsArg \in SkipRowsValues
    /\ bankType = ""
    /\ uiDateFormatHint = NoToken
    /\ importStartDate = Undefined
    /\ rawData = << >>
    /\ mapped = << >>
    /\ transactions = << >>
    /\ parsedTransactions = << >>
    /\ error = NoError
    /\ warnings = { }
    /\ options = NoOptions
    /\ ynabTransactions = << >>
    /\ reader = "parseXLSX"
    /\ statusMessage = NoStatus
    /\ ynabCsvString = << >>
    /\ rowConfig = NoConfig
    /\ rowAmount = NaN
    /\ configTable = bankConfigs
    /\ calls = << >>
    /\ frames = << >>
    /\ ui = NoUi

\* reader.onload of parseXLSX(file, skipRows): the promise resolves with the rows
ReadSheet ==
    /\ pc = "sheet"
    /\ pc' = "sheetread"
    /\ rawData' = parseXLSX(file.sheet, skipRowsArg)
    /\ UNCHANGED << host, file, bankType, uiDateFormatHint, importStartDate, mapped,
                    transactions, parsedTransactions, error, warnings, options,
                    ynabTransactions, reader, statusMessage, ynabCsvString, skipRowsArg, rowConfig, rowAmount, configTable, calls, frames, ui >>

NextSheet == ReadSheet

SpecSheet == InitSheet /\ [][NextSheet]_vars

-----------------------------------------------------------------------------
(* SpecAmount: the amount of a row under configurations of every shape.    *)

F_Debit == << "D", "e", "b", "i", "t" >>

F_Credit == << "C", "r", "e", "d", "i", "t" >>

\* configurations with and without transformAmount, amountField, outflowField
\* and inflowField
AmountConfigs ==
    { [ dateField        |-> F_Date,
        descriptionField |-> F_Description,
        payeeField       |-> Undefined,
        amountField      |-> a,
        outflowField     |-> o,
        inflowField      |-> i,
        skipRows         |-> 0,
        dateFormat       |-> "YYYY-MM-DD",
        hasTransformAmount |-> t ] :
      a \in { Undefined, F_Amount }, o \in { Undefined, F_Debit },
      i \in { Undefined, F_Credit }, t \in BOOLEAN }

\* the institutions whose transformAmount a configuration of the pool has
TransformOwners == { "eqbank", "amex" }

\* a row with an amount, a debit and a credit cell; an Undefined cell is a
\* column the row does not have
AmountRow(a, o, i) ==
    << Cell(F_Date, Date_2023_01_15), Cell(F_Description, DescCoffee) >>
    \o (IF a = Undefined THEN << >> ELSE << Cell(F_Amount, a) >>)
    \o (IF o = Undefined THEN << >> ELSE << Cell(F_Debit, o) >>)
    \o (IF i = Undefined THEN << >> ELSE << Cell(F_Credit, i) >>)

\* amount cells with their meaning, and the absent column
AmountEntries == SourceAmounts \cup { [cell |-> Undefined, value |-> 0] }

InitAmount ==
    /\ pc = "row"
    /\ host = [tz |-> 0, lenient |-> TRUE]
    /\ file = NoFile
    /\ skipRowsArg = 0
    /\ bankType \in TransformOwners
    /\ rowConfig \in AmountConfigs
    /\ uiDateFormatHint = NoToken
    /\ importStartDate = Undefined
    /\ rawData \in { << AmountRow(a.cell, o.cell, i.cell) >> :
                        a \in AmountEntries, o \in AmountEntries, i \in AmountEntries }
    /\ mapped = << >>
    /\ transactions = << >>
    /\ parsedTransactions = << >>
    /\ error = NoError
    /\ warnings = { }
    /\ options = NoOptions
    /\ ynabTransactions = << >>
    /\ reader = "none"
    /\ statusMessage = NoStatus
    /\ ynabCsvString = << >>
    /\ rowAmount = NaN
    /\ configTable = bankConfigs
    /\ calls = << >>
    /\ frames = << >>
    /\ ui = NoUi

\* the row callback derives the amount of the row (lines 153-170)
DeriveAmount ==
    /\ pc = "row"
    /\ pc' = "amount"
    /\ rowAmount' = amountOf(rawData[1], rowConfig, bankType)
    /\ UNCHANGED << host, file, bankType, uiDateFormatHint, importStartDate, rawData,
                    mapped, transactions, parsedTransactions, error, warnings, options,
                    ynabTransactions, reader, statusMessage, ynabCsvString, skipRowsArg,
                    rowConfig, configTable, calls, frames, ui >>

NextAmount == DeriveAmount

SpecAmount == InitAmount /\ [][NextAmount]_vars

-----------------------------------------------------------------------------
(* SpecOverlap: two invocations of parseFile whose awaits overlap, each    *)
(* followed by the export of its records.                                  *)

Callers == 1..2

\* the two-row statement the overlapping invocations read
OverlapRows ==
    << Cells(Raw_07_08_2023, DescCoffee, PayeeSbux, Amt_37_88),
       Cells(Date_2023_01_15, DescRent, Blanks, << "-", "$", "1", "8", "0" >>) >>

OverlapFiles ==
    { File(Name_csv, NoError, CsvContent(OverlapRows), << >>),
      File(Name_xlsx, NoError, << >>, SheetContent(SubSeq(OverlapRows, 1, 1), 0)),
      File(Name_csv, "CSV parsing error", << >>, << >>),
      File(Name_txt, NoError, << >>, << >>) }

\* the arguments of an invocation
OverlapArgs ==
    [ file : OverlapFiles, bankType : { "eqbank", "scotiabank", "unsupported" },
      uiDateFormatHint : { NoToken, "DD/MM/YYYY" }, importStartDate : { Undefined, Date_2023_01_15 } ]

\* the state of a promise
Pending == [state |-> "pending", value |-> << >>, error |-> NoError]

Fulfilled(v) == [state |-> "fulfilled", value |-> v, error |-> NoError]

Rejected(e) == [state |-> "rejected", value |-> << >>, error |-> e]

NoFrame == [bankType |-> "", ext |-> "", uiDateFormatHint |-> NoToken, importStartDate |-> Undefined]

\* all invocations keeping their parameters and locals in one place
FrameOf_Shared(c) == 1

\* parameters and locals belong to the invocation: each call of the async
\* function has its own
FrameOf(c) == c

InitOverlap ==
    /\ pc = "overlap"
    /\ host = [tz |-> 0, lenient |-> TRUE]
    /\ file = NoFile
    /\ bankType = ""
    /\ uiDateFormatHint = NoToken
    /\ importStartDate = Undefined
    /\ rawData = << >>
    /\ mapped = << >>
    /\ transactions = << >>
    /\ parsedTransactions = << >>
    /\ error = NoError
    /\ warnings = { }
    /\ options = NoOptions
    /\ ynabTransactions = << >>
    /\ reader = "none"
    /\ statusMessage = NoStatus
    /\ ynabCsvString = << >>
    /\ skipRowsArg = 0
    /\ rowConfig = NoConfig
    /\ rowAmount = NaN
    /\ configTable = bankConfigs
    /\ calls \in [ Callers -> { [args |-> a, pc |-> "pending", outcome |-> Pending,
                                 overlapped |-> FALSE, options |-> NoOptions,
                                 ynabCsvString |-> << >>] : a \in OverlapArgs } ]
    /\ frames = [ c \in Callers |-> NoFrame ]
    /\ ui = NoUi

UnchangedRun ==
    UNCHANGED << pc, host, file, bankType, uiDateFormatHint, importStartDate, rawData,
                 mapped, transactions, parsedTransactions, error, warnings, options,
                 ynabTransactions, reader, statusMessage, ynabCsvString, skipRowsArg,
                 rowConfig, rowAmount, ui >>

\* invocation c runs up to its await (lines 129-146): it throws, or it calls
\* its decoder and waits
CallParseFile(c) ==
    LET a == calls[c].args
        thrown == IF a.bankType \notin DOMAIN configTable
                  THEN UnsupportedBankType(a.bankType)
                  ELSE parseFile_throws(a.file, a.bankType)
        others == { d \in Callers : d # c /\ calls[d].pc = "reading" }
    IN  /\ calls[c].pc = "pending"
        /\ IF thrown # NoError
           THEN /\ calls' = [calls EXCEPT ![c].pc = "settled", ![c].outcome = Rejected(thrown)]
                /\ UNCHANGED frames
           ELSE /\ calls' = [ d \in Callers |->
                               IF d = c THEN [calls[c] EXCEPT !.pc = "reading",
                                                              !.overlapped = others # { }]
                               ELSE IF d \in others THEN [calls[d] EXCEPT !.overlapped = TRUE]
                               ELSE calls[d] ]
                /\ frames' = [frames EXCEPT ![FrameOf(c)] =
                                 [bankType |-> a.bankType, ext |-> ExtKind(a.file),
                                  uiDateFormatHint |-> a.uiDateFormatHint,
                                  importStartDate |-> a.importStartDate]]
        /\ UNCHANGED configTable
        /\ UnchangedRun

\* the decoder of invocation c settles and parseFile runs to its end (lines
\* 148-219) with the parameters and locals of the invocation
DecoderSettles(c) ==
    LET a == calls[c].args
        fr == frames[FrameOf(c)]
        raw == IF fileExtension(a.file) = Ext_csv THEN a.file.data
               ELSE parseXLSX(a.file.sheet, configTable[a.bankType].skipRows)
    IN  /\ calls[c].pc = "reading"
        /\ calls' = [calls EXCEPT ![c].pc = "settled",
                                  ![c].outcome =
                                      IF a.file.fails THEN Rejected(a.file.failure)
                                      ELSE Fulfilled(FilterByStartDate(
                                               FilterBoolean(MappedRows(
                                                   SlicedRows(raw, fr.ext, fr.bankType),
                                                   fr.bankType, fr.uiDateFormatHint, host)),
                                               fr.importStartDate))]
        /\ UNCHANGED << configTable, frames, ui >>
        /\ UnchangedRun

\* the records of invocation c are exported (README.md, handleImport)
ExportRecords(c, opts) ==
    /\ calls[c].pc = "settled"
    /\ calls[c].outcome.state = "fulfilled"
    /\ calls' = [calls EXCEPT ![c].pc = "exported",
                              ![c].options = opts,
                              ![c].ynabCsvString = generateYNABCSVString(
                                  convertToYNABTransactions(calls[c].outcome.value, opts))]
    /\ UNCHANGED << configTable, frames, ui >>
    /\ UnchangedRun

NextOverlap ==
    \/ \E c \in Callers : CallParseFile(c)
    \/ \E c \in Callers : DecoderSettles(c)
    \/ \E c \in Callers, opts \in ImportOptionSets : ExportRecords(c, opts)

SpecOverlap == InitOverlap /\ [][NextOverlap]_vars

-----------------------------------------------------------------------------
(* SpecUI: the App component, its controls and the parses it starts.       *)

\* availableBankOptions: the keys of the table that do not start with 'generic_'
availableBankOptions == { "eqbank", "amex", "scotiabank" }

\* the options of the date format select
DateFormatOptions == { "Day/Month/Year", "Month/Day/Year", "Year/Month/Day" }

\* the names of the files a user picks
PickedNames == { Name_csv, Name_xlsx, Name_txt }

\* name.endsWith(suffix)
endsWith(name, suffix) ==
    /\ Len(name) >= Len(suffix)
    /\ SubSeq(name, Len(name) - Len(suffix) + 1, Len(name)) = suffix

\* no parse has been started
NoParse == [file |-> << >>, account |-> "", hint |-> NoToken, isReparse |-> FALSE]

\* the most parses the model lets be in flight
MaxInFlight == 2

\* the date format select stays enabled while a parse is in flight
Disabled_DateFormatEnabled(control, u) ==
    CASE control = "bankAccount" -> u.isProcessing \/ availableBankOptions = { }
      [] control = "import" -> u.isProcessing \/ u.parsedTransactions = 0
      [] control = "outputDateFormatSelect" -> FALSE
      [] OTHER -> u.isProcessing

\* the disabled attribute of a control in the render of state u; the selects
\* and the buttons are rendered only when a file is selected
Disabled(control, u) ==
    CASE control = "bankAccount" -> u.isProcessing \/ availableBankOptions = { }
      [] control = "import" -> u.isProcessing \/ u.parsedTransactions = 0
      [] OTHER -> u.isProcessing

Rendered(control, u) == control = "file-upload-input" \/ u.selectedFile # << >>

\* the user can operate the control
Operable(control, u) == Rendered(control, u) /\ ~Disabled(control, u)

\* processAndSetTransactions up to its await, from the state u the handler
\* has set: the early returns, or the status, the flag and the call of parseFile
processAndSetTransactions(u, f, accountToUse, hint, isReparse) ==
    IF accountToUse = "" /\ availableBankOptions # { }
    THEN [u EXCEPT !.statusMessage = "warning", !.isProcessing = FALSE]
    ELSE IF availableBankOptions = { }
    THEN [u EXCEPT !.statusMessage = "warning", !.isProcessing = FALSE]
    ELSE [u EXCEPT !.statusMessage = "info", !.isProcessing = TRUE,
                   !.parsedTransactions = 0, !.inFlight = @ + 1,
                   !.parse = [file |-> f, account |-> accountToUse, hint |-> hint,
                              isReparse |-> isReparse]]

InitUI ==
    /\ pc = "ui"
    /\ host = [tz |-> 0, lenient |-> TRUE]
    /\ file = NoFile
    /\ bankType = ""
    /\ uiDateFormatHint = NoToken
    /\ importStartDate = Undefined
    /\ rawData = << >>
    /\ mapped = << >>
    /\ transactions = << >>
    /\ parsedTransactions = << >>
    /\ error = NoError
    /\ warnings = { }
    /\ options = NoOptions
    /\ ynabTransactions = << >>
    /\ reader = "none"
    /\ statusMessage = NoStatus
    /\ ynabCsvString = << >>
    /\ skipRowsArg = 0
    /\ rowConfig = NoConfig
    /\ rowAmount = NaN
    /\ configTable = bankConfigs
    /\ calls = << >>
    /\ frames = << >>
    /\ ui = [ isProcessing |-> FALSE, inFlight |-> 0, parse |-> NoParse,
              selectedFile |-> << >>, selectedAccount |-> "eqbank",
              outputDateFormat |-> "Day/Month/Year", parsedTransactions |-> 0,
              statusMessage |-> "none", swapPayeesMemos |-> FALSE ]

UnchangedBelowUI ==
    UNCHANGED << pc, host, file, bankType, uiDateFormatHint, importStartDate, rawData,
                 mapped, transactions, parsedTransactions, error, warnings, options,
                 ynabTransactions, reader, statusMessage, ynabCsvString, skipRowsArg,
                 rowConfig, rowAmount, configTable, calls, frames >>

\* handleFileChange: the user picks the file named n
HandleFileChange(n) ==
    /\ pc = "ui"
    /\ Operable("file-upload-input", ui)
    /\ ui.inFlight < MaxInFlight
    /\ ui' = IF \E suffix \in { Ext_csv, Ext_xls, Ext_xlsx } : endsWith(n, << "." >> \o suffix)
             THEN processAndSetTransactions([ui EXCEPT !.selectedFile = n], n,
                                            ui.selectedAccount, ui.outputDateFormat, FALSE)
             ELSE [ui EXCEPT !.selectedFile = << >>, !.parsedTransactions = 0,
                             !.statusMessage = "error"]
    /\ UnchangedBelowUI

\* onChange of the bank select
BankAccountChange(newAccount) ==
    /\ pc = "ui"
    /\ Operable("bankAccount", ui)
    /\ ui.inFlight < MaxInFlight
    /\ ui' = processAndSetTransactions([ui EXCEPT !.selectedAccount = newAccount],
                                       ui.selectedFile, newAccount, ui.outputDateFormat, TRUE)
    /\ UnchangedBelowUI

\* onChange of the date format select
OutputDateFormatChange(newDateFormat) ==
    /\ pc = "ui"
    /\ Operable("outputDateFormatSelect", ui)
    /\ ui.inFlight < MaxInFlight
    /\ ui' = IF ui.selectedAccount # ""
             THEN processAndSetTransactions([ui EXCEPT !.outputDateFormat = newDateFormat],
                                            ui.selectedFile, ui.selectedAccount,
                                            newDateFormat, TRUE)
             ELSE [ui EXCEPT !.outputDateFormat = newDateFormat]
    /\ UnchangedBelowUI

\* onChange of the swap checkbox
SwapPayeesMemosChange ==
    /\ pc = "ui"
    /\ Operable("swapPayeeMemo", ui)
    /\ ui' = [ui EXCEPT !.swapPayeesMemos = ~@]
    /\ UnchangedBelowUI

\* the awaited parseFile settles and processAndSetTransactions runs to its
\* end: n records, or a rejection (n = -1); finally the flag is cleared
ParseSettles(n) ==
    /\ pc = "ui"
    /\ ui.inFlight > 0
    /\ ui' = [ui EXCEPT !.inFlight = @ - 1,
                        !.parsedTransactions = IF n > 0 THEN n ELSE 0,
                        !.statusMessage = IF n > 0 THEN "success"
                                          ELSE IF n = 0 THEN "warning" ELSE "error",
                        !.isProcessing = FALSE]
    /\ UnchangedBelowUI

\* handleImport: the flag is set, the document is built and downloaded, and
\* finally the flag is cleared, all in one handler
HandleImport ==
    /\ pc = "ui"
    /\ Operable("import", ui)
    /\ ui' = [ui EXCEPT !.statusMessage = "success", !.isProcessing = FALSE]
    /\ UnchangedBelowUI

\* handleCancel
HandleCancel ==
    /\ pc = "ui"
    /\ Operable("cancel", ui)
    /\ ui' = [ui EXCEPT !.selectedFile = << >>, !.parsedTransactions = 0,
                        !.statusMessage = "none", !.isProcessing = FALSE,
                        !.swapPayeesMemos = FALSE]
    /\ UnchangedBelowUI

NextUI ==
    \/ \E n \in PickedNames : HandleFileChange(n)
    \/ \E a \in availableBankOptions : BankAccountChange(a)
    \/ \E d \in DateFormatOptions : OutputDateFormatChange(d)
    \/ SwapPayeesMemosChange
    \/ \E n \in -1..2 : ParseSettles(n)
    \/ HandleImport
    \/ HandleCancel

SpecUI == InitUI /\ [][NextUI]_vars

-----------------------------------------------------------------------------
(* Claims about the ledger exporter (checked under SpecConvert).           *)

Converted == pc = "converted"

TxIndex == 1..Len(ynabTransactions)

\* C1: for every canonical record (finite amount) and every option set,
\* amount < 0 gives a non-empty Outflow and an empty Inflow, amount > 0 gives a
\* non-empty Inflow and an empty Outflow, and amount = 0 leaves both empty.
C1_OutflowInflowBySign ==
    Converted =>
        \A i \in TxIndex :
            LET a == parsedTransactions[i].amount
                y == ynabTransactions[i]
            IN  IsFinite(a) =>
                    /\ a.v < 0 => (y.Outflow # << >> /\ y.Inflow = << >>)
                    /\ a.v > 0 => (y.Inflow # << >> /\ y.Outflow = << >>)
                    /\ a.v = 0 => (y.Inflow = << >> /\ y.Outflow = << >>)

\* C1 witness: a converted run with a negative and a zero amount
C1_Witness ==
    /\ Converted
    /\ \E i, j \in TxIndex :
          /\ parsedTransactions[i].amount.v < 0
          /\ ynabTransactions[i].Outflow # << >>
          /\ parsedTransactions[j].amount.v = 0

\* C2 as stated: a record with an explicit non-empty payee gets Payee = payee
\* and Memo = description under every combination of the two options.
C2_Original_MemoAlwaysDescription ==
    Converted =>
        \A i \in TxIndex :
            HasPayee(parsedTransactions[i]) =>
                /\ ynabTransactions[i].Payee = parsedTransactions[i].payee
                /\ ynabTransactions[i].Memo = parsedTransactions[i].description

\* C2 amended: a record with an explicit non-empty payee gets Payee = payee
\* under every option combination, and Memo = description whenever importMemos
\* is true, whatever swapPayeesMemos is.
C2_PayeePrecedence ==
    Converted =>
        \A i \in TxIndex :
            HasPayee(parsedTransactions[i]) =>
                /\ ynabTransactions[i].Payee = parsedTransactions[i].payee
                /\ options.importMemos =>
                      ynabTransactions[i].Memo = parsedTransactions[i].description

\* C2 witness: a payee record converted with importMemos and swapPayeesMemos on
C2_Witness ==
    /\ Converted
    /\ options.importMemos
    /\ options.swapPayeesMemos
    /\ \E i \in TxIndex :
          /\ HasPayee(parsedTransactions[i])
          /\ ynabTransactions[i].Memo = parsedTransactions[i].description
          /\ ynabTransactions[i].Memo # ynabTransactions[i].Payee

\* C3: a record without a payee gets (Payee, Memo) = (description, "") when
\* importMemos and swapPayeesMemos are true, ("", description) when importMemos
\* is true and swapPayeesMemos false, and ("", "") when importMemos is false.
C3_NoPayeeAssignment ==
    Converted =>
        \A i \in TxIndex :
            LET t == parsedTransactions[i]
                y == ynabTransactions[i]
            IN  ~HasPayee(t) =>
                    /\ (options.importMemos /\ options.swapPayeesMemos) =>
                          (y.Payee = t.description /\ y.Memo = << >>)
                    /\ (options.importMemos /\ ~options.swapPayeesMemos) =>
                          (y.Payee = << >> /\ y.Memo = t.description)
                    /\ ~options.importMemos => (y.Payee = << >> /\ y.Memo = << >>)

\* C3 witness: a payee-less record converted with importMemos off and swap on
C3_Witness ==
    /\ Converted
    /\ ~options.importMemos
    /\ options.swapPayeesMemos
    /\ \E i \in TxIndex :
          /\ parsedTransactions[i].payee = Undefined
          /\ ynabTransactions[i].Payee = << >>

\* C4: with importMemos false every record gets Memo = "", also a record that
\* carries an explicit payee, and such a record still gets Payee = payee.
C4_NoMemoWithoutImportMemos ==
    (Converted /\ ~options.importMemos) =>
        \A i \in TxIndex :
            /\ ynabTransactions[i].Memo = << >>
            /\ HasPayee(parsedTransactions[i]) =>
                  ynabTransactions[i].Payee = parsedTransactions[i].payee

\* C4 witness: a payee record converted with importMemos off
C4_Witness ==
    /\ Converted
    /\ ~options.importMemos
    /\ \E i \in TxIndex :
          /\ HasPayee(parsedTransactions[i])
          /\ ynabTransactions[i].Payee = PayeeSbux
          /\ ynabTransactions[i].Memo = << >>

\* C6: a canonical date YYYY-MM-DD is exported as DD/MM/YYYY under
\* 'Day/Month/Year', MM/DD/YYYY under 'Month/Day/Year', YYYY/MM/DD under
\* 'Year/Month/Day' and unchanged under an absent or unknown token; a date not
\* of the form YYYY-MM-DD is exported unchanged under every token.
C6_OutputDateFormat ==
    Converted =>
        \A i \in TxIndex :
            LET d == parsedTransactions[i].date
                o == ynabTransactions[i].Date
                f == options.outputDateFormat
                Y == << d[1], d[2], d[3], d[4] >>
                M == << d[6], d[7] >>
                D == << d[9], d[10] >>
                canonical ==
                    /\ Len(d) = 10
                    /\ AllDigits(Y) /\ AllDigits(M) /\ AllDigits(D)
                    /\ d[5] = "-" /\ d[8] = "-"
            IN  IF canonical
                THEN /\ f = "Day/Month/Year" => o = D \o << "/" >> \o M \o << "/" >> \o Y
                     /\ f = "Month/Day/Year" => o = M \o << "/" >> \o D \o << "/" >> \o Y
                     /\ f = "Year/Month/Day" => o = Y \o << "/" >> \o M \o << "/" >> \o D
                     /\ f \notin { "Day/Month/Year", "Month/Day/Year", "Year/Month/Day" } => o = d
                ELSE o = d

\* C6 witness: 2023-01-31 exported as 01/31/2023 beside a non-canonical date
C6_Witness ==
    /\ Converted
    /\ options.outputDateFormat = "Month/Day/Year"
    /\ \E i, j \in TxIndex :
          /\ parsedTransactions[i].date = Date_2023_01_31
          /\ ynabTransactions[i].Date = << "0", "1", "/", "3", "1", "/", "2", "0", "2", "3" >>
          /\ parsedTransactions[j].date = Raw_12023_01_31
          /\ ynabTransactions[j].Date = Raw_12023_01_31

-----------------------------------------------------------------------------
(* Claims about parseFile and the whole run, checked under Spec.           *)

\* parseFile has resolved (the run may have gone on to the export)
Resolved == pc \in { "resolved", "converted" }

\* the rows the row callback ran on
CallbackRows == SlicedRows(rawData, ExtKind(file), bankType)

\* the date or the description cell of the row is missing or blank after trimming
BlankRow(row) ==
    \/ IsBlank(getRowValue(row, bankConfigs[bankType].dateField))
    \/ IsBlank(getRowValue(row, bankConfigs[bankType].descriptionField))

BlankRowCount(rows) == Cardinality({ i \in 1..Len(rows) : BlankRow(rows[i]) })

\* C5 as stated: with importMemos = true and swapPayeesMemos = false every
\* exported record has Memo = the record's description, Payee blank and
\* Category blank, for every institution of the table.
C5_Original_PayeeAndCategoryBlank ==
    (Converted /\ options.importMemos /\ ~options.swapPayeesMemos) =>
        \A i \in TxIndex :
            /\ ynabTransactions[i].Memo = parsedTransactions[i].description
            /\ ynabTransactions[i].Payee = << >>
            /\ ynabTransactions[i].Category = << >>

C8_Original_AmountFinite ==
    Resolved => \A i \in 1..Len(parsedTransactions) : IsFinite(parsedTransactions[i].amount)

\* C9: for a kept row whose amount cell denotes the signed source amount v,
\* scotiabank and amex give the record the amount -v (a charge becomes
\* negative, a credit positive, same magnitude) and eqbank gives it v.
C9_SignConvention ==
    Resolved =>
        \A i \in 1..Len(mapped) : \A e \in SourceAmounts :
            (mapped[i] # NullTx /\ getRowValue(CallbackRows[i], F_Amount) = e.cell) =>
                /\ bankType \in { "scotiabank", "amex" } => mapped[i].amount = Fin(0 - e.value)
                /\ bankType = "eqbank" => mapped[i].amount = Fin(e.value)

\* C9 witness: an amex run that turned the credit -$180 into +180.00
C9_Witness ==
    /\ Resolved
    /\ bankType = "amex"
    /\ \E i \in 1..Len(mapped) :
          /\ mapped[i] # NullTx
          /\ getRowValue(CallbackRows[i], F_Amount) = << "-", "$", "1", "8", "0" >>
          /\ mapped[i].amount = Fin(18000)

\* C10 as stated: the date of every returned record has the exact form
\* YYYY-MM-DD or is, character for character, the raw date string of its row.
C10_Original_DateIsoOrRaw ==
    Resolved =>
        \A i \in 1..Len(mapped) :
            (mapped[i] # NullTx /\ \E k \in 1..Len(parsedTransactions) : parsedTransactions[k] = mapped[i]) =>
                \/ IsISODate(mapped[i].date)
                \/ mapped[i].date = String(getRowValue(CallbackRows[i], bankConfigs[bankType].dateField))

\* the date format in force for the rows of the run: the caller's hint when
\* it passed a non-empty one, else the institution's dateFormat
HintInForce ==
    IF uiDateFormatHint \notin { NoToken, "" } THEN uiDateFormatHint
    ELSE bankConfigs[bankType].dateFormat

\* the raw date string of callback row i
RawDate(i) == String(getRowValue(CallbackRows[i], bankConfigs[bankType].dateField))

\* the digit strings y, m, d name a calendar date of a year from 100 on
NamesCalendarDate(y, m, d) ==
    /\ DigitsToNat(y) >= 100
    /\ DigitsToNat(m) \in 1..12
    /\ DigitsToNat(d) \in 1..DaysInMonth(DigitsToNat(y), DigitsToNat(m))

\* the text y-mm-dd of the digit strings y, m, d
IsoText(y, m, d) == y \o << "-" >> \o PadStart2(m) \o << "-" >> \o PadStart2(d)

\* p holds the three digit groups A, B, YYYY
NumericDayMonthYear(p) ==
    /\ Len(p) = 3
    /\ \A k \in 1..3 : AllDigits(p[k])
    /\ Len(p[1]) \in 1..2 /\ Len(p[2]) \in 1..2 /\ Len(p[3]) = 4

\* the record's date for the groups p of its raw date, under format fmt
HintedDateAsWritten(date, p, fmt) ==
    NumericDayMonthYear(p) =>
        /\ (fmt = "DD/MM/YYYY" /\ NamesCalendarDate(p[3], p[2], p[1])) =>
              date = IsoText(p[3], p[2], p[1])
        /\ (fmt = "MM/DD/YYYY" /\ NamesCalendarDate(p[3], p[1], p[2])) =>
              date = IsoText(p[3], p[1], p[2])

\* C11: a raw date A/B/YYYY that names a calendar date in the order of the
\* hint is normalised to YYYY-B-A under DD/MM/YYYY and to YYYY-A-B under
\* MM/DD/YYYY (31/12/2023 gives 2023-12-31 under DD/MM/YYYY; 07/08/2023 gives
\* 2023-08-07 under DD/MM/YYYY and 2023-07-08 under MM/DD/YYYY).
C11_HintOrdersDayAndMonth ==
    Resolved =>
        \A i \in 1..Len(mapped) :
            mapped[i] # NullTx =>
                HintedDateAsWritten(mapped[i].date, Split(RawDate(i), DateSeparators), HintInForce)

\* C11 witness: 07/08/2023 read as 7 August under DD/MM/YYYY
C11_Witness ==
    /\ Resolved
    /\ HintInForce = "DD/MM/YYYY"
    /\ \E i \in 1..Len(mapped) :
          /\ mapped[i] # NullTx
          /\ RawDate(i) = Raw_07_08_2023
          /\ mapped[i].date = << "2", "0", "2", "3", "-", "0", "8", "-", "0", "7" >>

\* the first of the groups p of a raw date A/B/YYYY is no month
FirstGroupAbove12(p) == NumericDayMonthYear(p) /\ DigitsToNat(p[1]) > 12

\* C12 as stated: under MM/DD/YYYY a raw date whose first component is greater
\* than 12 is not normalised: the record keeps the raw string.
C12_Original_MonthAbove12KeepsRaw ==
    Resolved =>
        \A i \in 1..Len(mapped) :
            (/\ mapped[i] # NullTx
             /\ HintInForce = "MM/DD/YYYY"
             /\ FirstGroupAbove12(Split(RawDate(i), DateSeparators))) =>
                mapped[i].date = RawDate(i)

\* the record of callback row i is among the records parseFile returned
Returned(i) == \E k \in 1..Len(parsedTransactions) : parsedTransactions[k] = mapped[i]

\* C13 as stated: a row whose date no step of formatDate can parse is not
\* dropped: the run warns 'Could not parse date', the record carries the raw
\* date string, and it is returned whatever start date is supplied.
C13_Original_UnparsedDateAlwaysKept ==
    Resolved =>
        \A i \in 1..Len(mapped) :
            (mapped[i] # NullTx /\ formatDate_warns(RawDate(i), HintInForce, host)) =>
                /\ Warning("date", 0, RawDate(i)) \in warnings
                /\ mapped[i].date = RawDate(i)
                /\ Returned(i)

\* year, month and day of a text of the form YYYY-MM-DD as one number
DateKey(s) ==
    DigitsToNat(SubSeq(s, 1, 4)) * 10000 + DigitsToNat(SubSeq(s, 6, 7)) * 100
    + DigitsToNat(SubSeq(s, 9, 10))

\* the start date supplied is of the form YYYY-MM-DD
StartDateWellFormed ==
    importStartDate # Undefined /\ importStartDate # << >> /\ IsISODate(importStartDate)

\* the record is not before the start date, or its date is not of the ISO form
OnOrAfterStart(tx) == ~IsISODate(tx.date) \/ DateKey(tx.date) >= DateKey(importStartDate)

\* C14: with a start date of the form YYYY-MM-DD parseFile returns, in their
\* original order, the records whose ISO date is on or after the start date
\* (the boundary included) together with the records whose date is not of the
\* ISO form; with an undefined, empty or malformed start date it returns every
\* record.
C14_StartDateFilter ==
    Resolved =>
        IF StartDateWellFormed
        THEN parsedTransactions = SelectSeq(transactions, OnOrAfterStart)
        ELSE parsedTransactions = transactions

\* C14 witness: a filtered run that kept a record dated on the start date and
\* removed an earlier one
C14_Witness ==
    /\ Resolved
    /\ StartDateWellFormed
    /\ Len(parsedTransactions) < Len(transactions)
    /\ \E k \in 1..Len(parsedTransactions) : parsedTransactions[k].date = importStartDate

\* C15 as stated: a run whose institution key is not among the table's keys is
\* rejected with the message that names the key, whatever the file is, and no
\* decoder has been called and no row read
C15_Original_UnknownKeyRejectedFirst ==
    (pc # "idle" /\ bankType \notin BankKeys)
        => /\ pc = "rejected"
           /\ error = "Unsupported bank type: " \o bankType \o ". No configuration found."
           /\ reader = "none"
           /\ rawData = << >>

\* the name ends in the text `suffix`, letter case aside
EndsWith(name, suffix) ==
    /\ Len(name) >= Len(suffix)
    /\ ToLowerCase(SubSeq(name, Len(name) - Len(suffix) + 1, Len(name))) = suffix

\* the name ends in '.csv', '.xls' or '.xlsx'
SupportedSuffix(name) ==
    \E ext \in { Ext_csv, Ext_xls, Ext_xlsx } : EndsWith(name, << "." >> \o ext)

\* C16 as stated: a run with a key of the table on a file whose name ends in
\* none of '.csv', '.xls', '.xlsx' is rejected with the file type message, and
\* neither decoder is ever called
C16_Original_OtherNamesRejected ==
    [](pc # "idle" /\ bankType \in BankKeys /\ ~SupportedSuffix(file.name)
          => /\ pc = "rejected"
             /\ error = UnsupportedFileType
             /\ reader = "none")

\* a decoder was called on a file it fails on
DecoderFails == reader # "none" /\ file.fails

\* C17: when the decoder that parseFile called fails (the CSV parser's error
\* callback, the file reader's onerror, an exception while the workbook is
\* decoded), parseFile never resolves; it rejects with exactly the decoder's
\* error, and no row and no record comes out of the run
C17_DecoderErrorUnmodified ==
    DecoderFails
        => /\ pc \in { "reading", "rejected" }
           /\ pc = "rejected" => error = file.failure /\ error \in DecoderErrors
           /\ rawData = << >>
           /\ mapped = << >>
           /\ parsedTransactions = << >>

\* the CSV parser's error callback has rejected the run
C17_Witness ==
    /\ pc = "rejected"
    /\ reader = "parseCSV"
    /\ file.fails
    /\ error = "CSV parsing error"

\* the text of the caller's warning for a parse without records
EmptyResultHint(name) ==
    << "No transactions found in ", name,
       " with current settings. Check file, bank selection, input date format, or bank configuration (skipRows, field names)." >>

\* C18: when the decoder does not fail, parseFile does not reject; when it has
\* resolved with no record, no error is set and the caller's status is the
\* warning with the corrective hint, while after every rejection the caller's
\* status is of type error
C18_EmptyResultIsWarning ==
    /\ (reader # "none" /\ ~file.fails) => pc # "rejected" /\ error = NoError
    /\ (Resolved /\ parsedTransactions = << >>)
          => /\ error = NoError
             /\ statusMessage = Status("warning", EmptyResultHint(file.name))
    /\ pc = "rejected" => statusMessage.type = "error" /\ error # NoError

\* rows were read and records made, and the start date filtered all of them out
C18_Witness ==
    /\ pc = "resolved"
    /\ rawData # << >>
    /\ transactions # << >>
    /\ parsedTransactions = << >>
    /\ statusMessage.type = "warning"

\* the values of the row's keys written exactly as `name`
ExactValues(row, name) == { row[i].v : i \in { j \in 1..Len(row) : row[j].k = name } }

\* the values of the row's keys that equal `name` after case folding
FoldedValues(row, name) ==
    { row[i].v : i \in { j \in 1..Len(row) : ToLowerCase(row[j].k) = ToLowerCase(name) } }

\* the values the rule of C19 allows for the field `name` of the row: those of
\* the key written exactly so when there is one, else those of the keys equal
\* to it after case folding; none when the field is unresolved
RuleValues(row, name) ==
    IF ExactValues(row, name) # { } THEN ExactValues(row, name) ELSE FoldedValues(row, name)

\* by the rule, the field is unresolved or blank
RuleBlank(row, name) ==
    \/ RuleValues(row, name) = { }
    \/ \E v \in RuleValues(row, name) : Trim(v) = << >>

\* C19: the description of every record is the trimmed value of the row's key
\* written exactly as the configured descriptionField when the row has one,
\* also when other keys differ from it only in letter case, and otherwise the
\* value of a key equal to it after case folding; a row is dropped only when
\* its date or its description, resolved that way, is blank or unresolved, and
\* a row whose date or description no key matches either way is dropped
C19_ExactKeyThenFolded ==
    Resolved =>
        \A i \in 1..Len(mapped) :
            IF mapped[i] = NullTx
            THEN \/ RuleBlank(CallbackRows[i], bankConfigs[bankType].dateField)
                 \/ RuleBlank(CallbackRows[i], bankConfigs[bankType].descriptionField)
            ELSE /\ mapped[i].description
                      \in { Trim(v) : v \in RuleValues(CallbackRows[i],
                                                       bankConfigs[bankType].descriptionField) }
                 /\ RuleValues(CallbackRows[i], bankConfigs[bankType].dateField) # { }

\* a row with the keys DESCRIPTION and Description gave the record the value
\* of Description
C19_Witness ==
    /\ pc = "resolved"
    /\ rawData = << ExactAndFoldedRow >>
    /\ Len(parsedTransactions) = 1
    /\ parsedTransactions[1].description = DescCoffee

PayeeValue(i) ==
    IF bankConfigs[bankType].payeeField = Undefined THEN Undefined
    ELSE getRowValue(CallbackRows[i], bankConfigs[bankType].payeeField)

\* C21: a record has a payee exactly when the configuration names a payeeField
\* and the value it resolves to is non-empty after trimming, and the payee is
\* then the trimmed value; otherwise the record has no payee, and no record
\* has the empty string as payee
C21_PayeeOnlyWhenNonBlank ==
    Resolved =>
        \A i \in 1..Len(mapped) :
            mapped[i] # NullTx =>
                /\ mapped[i].payee # << >>
                /\ IF PayeeValue(i) # Undefined /\ Trim(PayeeValue(i)) # << >>
                   THEN mapped[i].payee = Trim(PayeeValue(i))
                   ELSE mapped[i].payee = Undefined

\* a run with a configured payeeField returned a record with the payee of its
\* row and a record of a row with a blank payee cell without payee
C21_Witness ==
    /\ pc = "resolved"
    /\ bankConfigs[bankType].payeeField # Undefined
    /\ Len(parsedTransactions) = 2
    /\ parsedTransactions[1].payee = PayeeSbux
    /\ parsedTransactions[2].payee = Undefined

-----------------------------------------------------------------------------
(* Claims about the generated document (checked under SpecConvert).        *)

\* position i of the text is outside quotes: an even number of quotes precedes it
OutsideQuotes(s, i) == Cardinality({ j \in 1..(i - 1) : s[j] = "\"" }) % 2 = 0

\* the k-th smallest member of the set of positions
NthOf(positions, k) ==
    CHOOSE i \in positions : Cardinality({ j \in positions : j < i }) = k - 1

\* the pieces of the text between the positions `breaks`
PiecesAt(s, breaks, n) ==
    [ k \in 1..(n + 1) |->
        SubSeq(s, IF k = 1 THEN 1 ELSE NthOf(breaks, k - 1) + 1,
                  IF k = n + 1 THEN Len(s) ELSE NthOf(breaks, k) - 1) ]

PiecesOf(s, breaks) == PiecesAt(s, breaks, Cardinality(breaks))

\* the pieces of the text between the separators that stand outside quotes
Pieces(s, sep) == PiecesOf(s, { i \in 1..Len(s) : s[i] = sep /\ OutsideQuotes(s, i) })

\* the characters of the text at the positions `keep`, in their order
CharsAt(t, keep) == [ k \in 1..Cardinality(keep) |-> t[NthOf(keep, k)] ]

\* the text of a cell: of a quoted cell, what stands between the quotes with
\* every doubled quote read as one
CellText(t) ==
    IF t # << >> /\ t[1] = "\""
    THEN CharsAt(t, { j \in 2..(Len(t) - 1) : t[j] # "\"" \/ OutsideQuotes(t, j) })
    ELSE t

CellTexts(pieces) == [ c \in 1..Len(pieces) |-> CellText(pieces[c]) ]

\* the cells of a row of the document
RowCells(line) == CellTexts(Pieces(line, ","))

RowsOf(lines) == [ r \in 1..Len(lines) |-> RowCells(lines[r]) ]

\* the rows of cells a reader of delimited text finds in the document: rows end
\* at a line break and cells at a comma outside quotes
ReadDocument(s) == RowsOf(Pieces(s, "\n"))

Generated == pc = "generated"

HeaderLine ==
    << "D", "a", "t", "e", ",", "P", "a", "y", "e", "e", ",",
       "C", "a", "t", "e", "g", "o", "r", "y", ",", "M", "e", "m", "o", ",",
       "O", "u", "t", "f", "l", "o", "w", ",", "I", "n", "f", "l", "o", "w" >>

\* the rows of the document are the header row and then, for the records
\* `txs` in their order, the six values of each in the fixed column order
DocumentOf(rows, txs) ==
    /\ Len(rows) = Len(txs) + 1
    /\ \A i \in 1..Len(txs) :
          rows[i + 1] = << txs[i].Date, txs[i].Payee, txs[i].Category, txs[i].Memo,
                          txs[i].Outflow, txs[i].Inflow >>

\* C22: the generated document starts with the line
\* Date,Payee,Category,Memo,Outflow,Inflow, followed by exactly one data row
\* per canonical record, in the order of the records, with the columns in
\* that order: no record is added, removed or reordered
C22_HeaderAndOneRowPerRecord ==
    Generated =>
        /\ IsPrefix(HeaderLine, ynabCsvString)
        /\ Len(ynabCsvString) > Len(HeaderLine) => ynabCsvString[Len(HeaderLine) + 1] = "\n"
        /\ Len(ynabTransactions) = Len(parsedTransactions)
        /\ DocumentOf(ReadDocument(ynabCsvString), ynabTransactions)

\* a document of two records: one whose six values are all empty, one whose
\* memo holds a comma, a quote and a line break
C22_Witness ==
    /\ Generated
    /\ Len(parsedTransactions) = 2
    /\ parsedTransactions[1] = Tx(<< >>, DescRent, Fin(0), Undefined)
    /\ ~options.importMemos
    /\ parsedTransactions[2].description = DescQuoted
    /\ ynabTransactions[1].Memo = << >>

-----------------------------------------------------------------------------
(* Claims about parseXLSX (checked under SpecSheet).                       *)

SheetRead == pc = "sheetread"

\* the 0-based indexes of the rows whose first cell, trimmed and lower-cased,
\* is "date"
DateRowIndexes(sheet) ==
    { i \in 0..(Len(sheet) - 1) :
        /\ Len(sheet[i + 1]) > 0
        /\ ToLowerCase(Trim(sheet[i + 1][1])) = << "d", "a", "t", "e" >> }

Lowest(indexes) == CHOOSE i \in indexes : \A j \in indexes : i <= j

\* the header row index C23 names for the sheet under skipRows
NamedHeaderIndex(sheet, skip) ==
    IF skip < 10 \/ DateRowIndexes(sheet) = { } THEN skip
    ELSE Lowest(DateRowIndexes(sheet))

\* the rows read are the rows of the sheet after row index h, keyed by the
\* cells of row h
RowsAfterHeader(rows, sheet, h) ==
    /\ Len(rows) = Len(sheet) - h - 1
    /\ \A i \in 1..Len(rows) :
          rows[i] = RowObject(sheet[h + 1], sheet[h + 1 + i], Len(sheet[h + 1 + i]))

\* C23: the header row of a sheet is row index skipRows when skipRows < 10;
\* when skipRows >= 10 it is the lowest-index row whose first cell, trimmed and
\* lower-cased, is "date", whatever skipRows is, and row index skipRows only
\* when there is no such row; the data rows are exactly the rows after it
C23_HeaderRowChoice ==
    (SheetRead /\ NamedHeaderIndex(file.sheet, skipRowsArg) < Len(file.sheet))
        => RowsAfterHeader(rawData, file.sheet, NamedHeaderIndex(file.sheet, skipRowsArg))

\* skipRows is 12, the "date" row is the second row of the sheet, and the one
\* row after it was read
C23_Witness ==
    /\ SheetRead
    /\ skipRowsArg = 12
    /\ file.sheet = << TitleRow, SpacedDateRow, SheetDataRow >>
    /\ Len(rawData) = 1

-----------------------------------------------------------------------------
(* Claims about parseFile, continued (checked under Spec).                 *)

\* the number of leading rows C24 says parseFile discards in this run
DiscardedRows == IF reader = "parseCSV" THEN bankConfigs[bankType].skipRows ELSE 0

\* callback result i was made of row i + skip of the rows read: it is the
\* null of a skipped row exactly when that row's date or description is
\* blank, and it has the row's description otherwise
MadeOfRow(tx, row) ==
    IF BlankRow(row) THEN tx = NullTx
    ELSE /\ tx # NullTx
         /\ tx.description = Trim(String(getRowValue(row, bankConfigs[bankType].descriptionField)))

-----------------------------------------------------------------------------
(* Claims about the amount of a row (checked under SpecAmount).            *)

\* the amount C25 names, in hundredths, for a row whose amount, debit and
\* credit cells mean a, o and i: by transformAmount when the configuration has
\* one (eqbank's returns the amount, amex's the amount with its sign flipped),
\* else the amount cell, else credit minus debit, else 0
NamedAmount(config, owner, a, o, i) ==
    IF config.hasTransformAmount
    THEN IF config.amountField = Undefined THEN 0
         ELSE IF owner = "amex" THEN 0 - a ELSE a
    ELSE IF config.amountField # Undefined THEN a
    ELSE IF config.outflowField # Undefined /\ config.inflowField # Undefined THEN i - o
    ELSE 0

\* C25: the amount of a row is derived by the first applicable rule only:
\* transformAmount when the configuration has one, whatever fields it names;
\* else the cleaned and parsed amount field; else cleaned inflow minus cleaned
\* outflow when both fields are configured; else 0
C25_FirstApplicableAmountRule ==
    pc = "amount" =>
        \E a \in AmountEntries, o \in AmountEntries, i \in AmountEntries :
            /\ rawData = << AmountRow(a.cell, o.cell, i.cell) >>
            /\ rowAmount = Fin(NamedAmount(rowConfig, bankType, a.value, o.value, i.value))

\* a configuration that has transformAmount and names all three fields: the
\* amount is amex's -37.88, not 37.88 and not credit minus debit
C25_Witness ==
    /\ pc = "amount"
    /\ rowConfig.hasTransformAmount
    /\ rowConfig.amountField # Undefined
    /\ rowConfig.outflowField # Undefined
    /\ rowConfig.inflowField # Undefined
    /\ bankType = "amex"
    /\ getRowValue(rawData[1], F_Amount) = Amt_37_88
    /\ getRowValue(rawData[1], F_Credit) = << "1", "0", ".", "5", "0" >>
    /\ rowAmount = Fin(0 - 3788)

-----------------------------------------------------------------------------
(* Claims about dates without a matching hint (checked under Spec).        *)

\* no strict hint pattern applies to the raw date of callback row i
NoStrictPattern(i) ==
    ~ \/ HintInForce \in { "DD/MM/YYYY", "MM/DD/YYYY" } /\ MatchesDayMonthYear(RawDate(i))
      \/ HintInForce = "YYYY/MM/DD" /\ MatchesYearMonthDay(RawDate(i))

\* the raw date of callback row i is a non-empty string of digits
NumericDate(i) == RawDate(i) # << >> /\ AllDigits(RawDate(i))

\* the date text of spreadsheet serial number n
SerialText(n) == formatDate_text(CivilFromDays(DaysFromCivil(1899, 12, 30) + n))

\* the date text of the first day of year n, as an engine reads a lone year in UTC
YearText(n) == formatDate_text([year |-> n, month |-> 1, day |-> 1])

\* C26 as stated: without a strict hint pattern, a numeric date that generic
\* parsing reads as the year of its own value becomes the date of that serial
\* number when the value is in 20000..80000 and stays that year otherwise; a
\* numeric date of 4 or 5 digits that generic parsing rejects becomes the date
\* of that serial number; "44926" becomes "2022-12-31" without a warning.
C26_Original_NumericDateAsSerial ==
    Resolved =>
        \A i \in 1..Len(mapped) :
            (mapped[i] # NullTx /\ NumericDate(i) /\ NoStrictPattern(i)) =>
                LET n == DigitsToNat(RawDate(i))
                    initial == NewDate(RawDate(i), host)
                    readAsYear == initial.ok /\ CivilFromDays(initial.day).year = n
                IN  /\ (readAsYear /\ n \in 20000..80000) => mapped[i].date = SerialText(n)
                    /\ (readAsYear /\ n \notin 20000..80000) => mapped[i].date = YearText(n)
                    /\ (~initial.ok /\ Len(RawDate(i)) \in 4..5) => mapped[i].date = SerialText(n)
                    /\ RawDate(i) = Raw_44926 =>
                          /\ mapped[i].date = << "2", "0", "2", "2", "-", "1", "2", "-", "3", "1" >>
                          /\ Warning("date", 0, RawDate(i)) \notin warnings

\* the hosts that differ from the host of the run in the timezone at most
SameEngineHosts == { h \in Hosts : h.lenient = host.lenient }

\* C27 as stated: a raw date that parses successfully is normalised to the
\* calendar date written in the source ("07/25/2023" to 2023-07-25,
\* "01 Jan 2023" to 2023-01-01 when no strict pattern applies), and a run that
\* differs only in the timezone of the host returns the same date.
C27_Original_DateIndependentOfTimezone ==
    Resolved =>
        \A i \in 1..Len(mapped) :
            (mapped[i] # NullTx /\ ~formatDate_warns(RawDate(i), HintInForce, host)) =>
                /\ \A h \in SameEngineHosts :
                       formatDate(RawDate(i), HintInForce, h) = mapped[i].date
                /\ (NoStrictPattern(i) /\ RawDate(i) = Raw_07_25_2023) =>
                       mapped[i].date = << "2", "0", "2", "3", "-", "0", "7", "-", "2", "5" >>
                /\ (NoStrictPattern(i) /\ RawDate(i) = Raw_01_Jan_2023) =>
                       mapped[i].date = Date_2023_01_01

-----------------------------------------------------------------------------
(* Claims about overlapping invocations (checked under SpecOverlap).       *)

\* what parseFile settles with for the arguments a when no other invocation runs
parseFile_alone(a) ==
    IF parseFile_throws(a.file, a.bankType) # NoError
    THEN Rejected(parseFile_throws(a.file, a.bankType))
    ELSE IF a.file.fails THEN Rejected(a.file.failure)
    ELSE LET raw == IF fileExtension(a.file) = Ext_csv THEN a.file.data
                    ELSE parseXLSX(a.file.sheet, bankConfigs[a.bankType].skipRows)
         IN  Fulfilled(FilterByStartDate(
                 FilterBoolean(MappedRows(SlicedRows(raw, ExtKind(a.file), a.bankType),
                                          a.bankType, a.uiDateFormatHint, host)),
                 a.importStartDate))

-----------------------------------------------------------------------------
(* Claims about the App component (checked under SpecUI).                  *)

\* the controls whose handlers call processAndSetTransactions
ParseControls == { "file-upload-input", "bankAccount", "outputDateFormatSelect" }

\* C29: at most one parse is in flight at any time; while one is in flight
\* isProcessing is true and the file input, the bank select and the date
\* format select are disabled; after a parse settles, by records, by an empty
\* result or by an error, isProcessing is false
C29_OneParseInFlight ==
    [][ pc = "ui" =>
          /\ ui'.inFlight <= 1
          /\ ui'.inFlight = 1 =>
                /\ ui'.isProcessing
                /\ \A control \in ParseControls : Disabled(control, ui')
          /\ ui'.inFlight < ui.inFlight => ~ui'.isProcessing ]_vars

\* a re-parse started from the date format select is in flight
C29_Witness ==
    /\ pc = "ui"
    /\ ui.inFlight = 1
    /\ ui.isProcessing
    /\ ui.parse.isReparse
    /\ ui.parse.hint = "Month/Day/Year"
    /\ ui.parse.file = Name_xlsx
    /\ ui.parse.account = "amex"
    /\ \A control \in ParseControls : ~Operable(control, ui)

-----------------------------------------------------------------------------
(* Claims about sheets without a header row (checked under Spec).          *)

\* the run reads a sheet that is empty, or whose header row index (skipRows,
\* or with skipRows >= 10 the lowest "date" row when there is one) is not the
\* index of a row
HeaderBeyondSheet ==
    /\ reader = "parseXLSX"
    /\ ~file.fails
    /\ \/ Len(file.sheet) = 0
       \/ NamedHeaderIndex(file.sheet, bankConfigs[bankType].skipRows) >= Len(file.sheet)

\* C30: a spreadsheet whose first sheet has no rows, or whose chosen header
\* row index is at or beyond the number of rows, is read as an empty row
\* sequence and parseFile resolves with zero records; it does not reject
C30_HeaderBeyondSheetIsEmptyResult ==
    (HeaderBeyondSheet /\ pc \notin { "idle", "reading" }) =>
        /\ pc # "rejected"
        /\ error = NoError
        /\ rawData = << >>
        /\ parsedTransactions = << >>

\* an amex run (skipRows 12) on a sheet of two rows, none starting with "date"
C30_Witness ==
    /\ HeaderBeyondSheet
    /\ pc = "resolved"
    /\ bankType = "amex"
    /\ Len(file.sheet) = 2
    /\ rawData = << >>
    /\ parsedTransactions = << >>
    /\ statusMessage.type = "warning"

====
